---- MODULE Spec2Model ----
(***************************************************************************)
(* Model of the order settlement engine of gatherpay                       *)
(* (utils/OrderProcessor.ts, kept in src/unnamed/part_004).                *)
(*                                                                         *)
(* Money is counted in paise (1/100 rupee), so that Number(x.toFixed(2))   *)
(* is integer rounding.  The Firestore documents the engine touches are    *)
(* the state: orders/{id}, groups/{id}, users/{id}.wallet.balance and the  *)
(* transactions collection (the ledger).  Every client call is a process   *)
(* that advances from one await to the next.                               *)
(***************************************************************************)
EXTENDS Integers, Sequences, FiniteSets, Bags, TLC

\* ---------------------------------------------------------------- constants
PLATFORM_FEE_PERCENTAGE == 2
MAX_BATCH_SIZE == 500
MAX_RETRIES == 3
NO_SHOW_PENALTY_PERCENTAGE == 20
MIN_TRANSACTION_AMOUNT == 1
MAX_TRANSACTION_AMOUNT == 10000
MAX_DAILY_TRANSACTION_LIMIT == 50000
MAX_GROUP_MEMBERS == 10

\* ------------------------------------------------------------------- bounds
\* how often runTransaction runs its update function in one call of it
MaxTxRuns == 2

\* how many operations one WalletProvider starts
MaxCalls == 1

\* the longest items array that calculateSplit is called with
MaxItems == 3

\* how many times the users press a button of the group screens, in all
MaxOps == 4

Procs == {"c1", "c2"}
NoShowProcs == {"n1", "n2"}
Sessions == {"s1", "s2"}
Users == {"L", "m1", "m2"}
Orders == {"o1", "o2"}
Groups == {"g1", "g2"}
Leader == "L"

\* the wallet balances a user may start with
LowBalance == 0
HighBalance == 100000
NoFee == 0 - 1

\* the codes carried by the OrderProcessingError thrown in the update
\* functions of processOrderCompletion and processNoShow
BusinessCodes ==
  {"ORDER_NOT_FOUND", "ORDER_COMPLETED", "ORDER_CANCELLED", "GROUP_NOT_FOUND",
   "INVALID_GROUP_STATUS", "USER_NOT_FOUND", "WALLET_NOT_FOUND",
   "SPLITS_NOT_APPROVED", "INSUFFICIENT_BALANCE", "ITEM_NOT_FOUND", "ALREADY_NO_SHOW"}

\* errors that are not an OrderProcessingError: a rejected read or write of
\* the store, a transaction the store aborted, a write batch used after commit
TransientCodes == {"UNAVAILABLE", "ABORTED", "BATCH_COMMITTED"}

IsOrderProcessingError(code) == code \in BusinessCodes

\* ------------------------------------------------------------------ inputs
Split(u, amt, ok) == [userId |-> u, finalAmount |-> amt, approved |-> ok]

\* the shares 102.50, 205.00 and 307.50, in paise
ApprovedSplits ==
  <<Split("L", 10250, TRUE), Split("m1", 20500, TRUE), Split("m2", 30750, TRUE)>>

UnapprovedSplits ==
  <<Split("L", 10250, TRUE), Split("m1", 20500, FALSE), Split("m2", 30750, TRUE)>>

\* an order with so many shares that the queued writes reach MAX_BATCH_SIZE
BulkCount == MAX_BATCH_SIZE \div 2

BulkSplits == [i \in 1..BulkCount |-> Split("m1", 1, TRUE)] \o <<Split("m2", 300, TRUE)>>

\* the sum of s[lo..hi], halving the range
RECURSIVE SumSeq(_, _, _)
SumSeq(s, lo, hi) ==
  IF lo > hi THEN 0
  ELSE IF lo = hi THEN s[lo]
  ELSE LET mid == (lo + hi) \div 2
       IN  SumSeq(s, lo, mid) + SumSeq(s, mid + 1, hi)

\* ---------------------------------------------- the values of calculateSplit
\* calculateSplit counts in thousandths of a rupee, so that amounts with more
\* than two decimals can be given to it
Mills(rupees) == rupees * 1000

\* the clients that call calculateSplit
Callers == {"k1", "k2"}

\* an element of items; isObject is false for null or undefined
OrderItem(u, mrp) == [userId |-> u, itemMRP |-> mrp, isObject |-> TRUE]

NullItem == [userId |-> "", itemMRP |-> 0, isObject |-> FALSE]

\* the argument items: an array of elements, or a value that is no array
ItemArray(elems) == [isArray |-> TRUE, elems |-> elems]

NotAnArray == [isArray |-> FALSE, elems |-> <<>>]

\* the arguments totalTax and totalDiscount: a number, or a value of another type
Num(v) == [isNumber |-> TRUE, val |-> v]

NotANumber == [isNumber |-> FALSE, val |-> 0]

CalcPending == [kind |-> "pending", code |-> "", splits |-> <<>>]
CalcReturned(splits) == [kind |-> "return", code |-> "", splits |-> splits]
CalcThrown(code) == [kind |-> "throw", code |-> code, splits |-> <<>>]

IdleCalc ==
  [items |-> NotAnArray, totalTax |-> NotANumber, totalDiscount |-> NotANumber,
   results |-> [k \in Callers |-> CalcPending]]

\* ------------------------------------------------------------ calculateSplit
Abs(n) == IF n < 0 THEN 0 - n ELSE n

\* the integer nearest to a / b for b > 0, a half going away from zero
Nearest(a, b) ==
  IF a >= 0 THEN (2 * a + b) \div (2 * b) ELSE 0 - ((2 * (0 - a) + b) \div (2 * b))

\* the greatest common divisor of a >= 0 and b > 0
RECURSIVE GCD(_, _)
GCD(a, b) == IF a = 0 THEN b ELSE GCD(b % a, a)

\* item.itemMRP / totalMRP for totalMRP > 0, the fraction in lowest terms
Ratio(mrp, totalMRP) ==
  LET g == GCD(Abs(mrp), totalMRP)
  IN  [num |-> mrp \div g, den |-> totalMRP \div g]

\* rounding that cuts the digits after the second decimal off
ToFixed2Down(a, b) == 10 * (a \div (10 * b))

\* Number((a / b).toFixed(2)) for a value of a / b thousandths of a rupee:
\* the nearest whole number of paise, in thousandths
ToFixed2(a, b) == 10 * Nearest(a, 10 * b)

\* items.reduce((sum, item) => sum + item.itemMRP, 0)
TotalMRP(elems) == SumSeq([i \in 1..Len(elems) |-> elems[i].itemMRP], 1, Len(elems))

\* the final amount computed without the discount share
FinalAmountNoDiscount(mrp, taxShare, discountShare) == ToFixed2(mrp + taxShare, 1)

\* Number((item.itemMRP + taxShare - discountShare).toFixed(2))
FinalAmount(mrp, taxShare, discountShare) == ToFixed2(mrp + taxShare - discountShare, 1)

\* a split that is created already approved
SplitForApproved(item, totalMRP, totalTax, totalDiscount) ==
  LET ratio == Ratio(item.itemMRP, totalMRP)
      taxShare == ToFixed2(totalTax * ratio.num, ratio.den)
      discountShare == ToFixed2(totalDiscount * ratio.num, ratio.den)
  IN  [userId |-> item.userId, originalAmount |-> item.itemMRP, taxShare |-> taxShare,
       discountShare |-> discountShare,
       finalAmount |-> FinalAmount(item.itemMRP, taxShare, discountShare),
       approved |-> TRUE]

\* the callback of items.map (lines 241-255)
SplitFor(item, totalMRP, totalTax, totalDiscount) ==
  LET ratio == Ratio(item.itemMRP, totalMRP)
      taxShare == ToFixed2(totalTax * ratio.num, ratio.den)
      discountShare == ToFixed2(totalDiscount * ratio.num, ratio.den)
  IN  [userId |-> item.userId, originalAmount |-> item.itemMRP, taxShare |-> taxShare,
       discountShare |-> discountShare,
       finalAmount |-> FinalAmount(item.itemMRP, taxShare, discountShare),
       approved |-> FALSE]

\* the checks of the arguments with the one of totalDiscount made first
ArgumentErrorDiscountFirst(its, totalTax, totalDiscount) ==
  IF ~totalDiscount.isNumber \/ totalDiscount.val < 0 THEN "INVALID_DISCOUNT"
  ELSE IF ~totalTax.isNumber \/ totalTax.val < 0 THEN "INVALID_TAX"
  ELSE IF ~its.isArray \/ Len(its.elems) = 0 THEN "INVALID_ITEMS"
  ELSE ""

\* the checks of the arguments (lines 226-234), "" when they pass
ArgumentError(its, totalTax, totalDiscount) ==
  IF ~its.isArray \/ Len(its.elems) = 0 THEN "INVALID_ITEMS"
  ELSE IF ~totalTax.isNumber \/ totalTax.val < 0 THEN "INVALID_TAX"
  ELSE IF ~totalDiscount.isNumber \/ totalDiscount.val < 0 THEN "INVALID_DISCOUNT"
  ELSE ""

\* calculateSplit(items, totalTax, totalDiscount), its standing for items.  Reading itemMRP of an
\* element that is null throws a TypeError, which the catch block turns into
\* CALCULATION_ERROR; an OrderProcessingError is thrown on as it is.
calculateSplit(its, totalTax, totalDiscount) ==
  IF ArgumentError(its, totalTax, totalDiscount) # ""
  THEN CalcThrown(ArgumentError(its, totalTax, totalDiscount))
  ELSE IF \E i \in 1..Len(its.elems) : ~its.elems[i].isObject
  THEN CalcThrown("CALCULATION_ERROR")
  ELSE LET totalMRP == TotalMRP(its.elems)
       IN  IF totalMRP <= 0 THEN CalcThrown("INVALID_TOTAL")
           ELSE CalcReturned([i \in 1..Len(its.elems) |->
                                SplitFor(its.elems[i], totalMRP, totalTax.val,
                                         totalDiscount.val)])

\* a bill whose discount is larger than the prices and the tax together
DiscountedBill ==
  [items |-> ItemArray(<<OrderItem("m1", Mills(100)), OrderItem("m2", 0)>>),
   totalTax |-> Num(0), totalDiscount |-> Num(Mills(150))]

\* a bill with an item of 0.02
TinyBill ==
  [items |-> ItemArray(<<OrderItem("m1", 20), OrderItem("m2", Mills(100))>>),
   totalTax |-> Num(0), totalDiscount |-> Num(0)]

\* the splits that calculateSplit returns for a bill, approved by the
\* members, as they are passed to processOrderCompletion, in paise
SettledSplits(bill) ==
  LET r == calculateSplit(bill.items, bill.totalTax, bill.totalDiscount)
  IN  [i \in 1..Len(r.splits) |->
         Split(r.splits[i].userId, r.splits[i].finalAmount \div 10, TRUE)]

\* ------------------------------------------------------------------ inputs
\* the lists of splits a call may be made with, by name
SplitChoices ==
  [approved |-> ApprovedSplits, unapproved |-> UnapprovedSplits, bulk |-> BulkSplits,
   discounted |-> SettledSplits(DiscountedBill), tiny |-> SettledSplits(TinyBill)]

\* the arguments of a call; the state keeps the name of the list of splits
Args(c) == [c EXCEPT !.splits = SplitChoices[c.splits]]

MemberChoices == {<<"L", "m1", "m2">>, <<"L", "m1">>}

\* an entry of orders/{id}.items
Item(amt) == [present |-> TRUE, finalAmount |-> amt, noShow |-> FALSE, noShowPenalty |-> 0]

NoItem == [present |-> FALSE, finalAmount |-> 0, noShow |-> FALSE, noShowPenalty |-> 0]

\* the items of an order whose shares are splits
ItemsOf(splits) ==
  [o \in Orders |->
     [u \in Users |->
        IF \E i \in 1..Len(splits) : splits[i].userId = u
        THEN Item(splits[CHOOSE i \in 1..Len(splits) : splits[i].userId = u].finalAmount)
        ELSE NoItem]]

\* the same order without an item of user u
WithoutItem(its, u) == [o \in Orders |-> [its[o] EXCEPT ![u] = NoItem]]

\* the arguments of a call processNoShow(groupId, orderId, userId, leaderId)
NoShowArgs(u) == [groupId |-> "g1", orderId |-> "o1", userId |-> u, leaderId |-> Leader]

UserDocChoices == {Users, Users \ {"m2"}}

\* --------------------------------------------- the values of the group screen
\* the keys of groups/{id}.members: a user id, or the index of an array element
MemberKeys == Users \cup {"0"}

NoMembers == [k \in MemberKeys |-> "absent"]

\* the fields of groups/{id} other than status; a value of members is "true",
\* "false", a user id (the element of an array) or "absent"
GroupDoc(ms, n, by, order) ==
  [members |-> ms, memberCount |-> n, createdBy |-> by, currentOrder |-> order]

NoGroupDoc == GroupDoc(NoMembers, 0, "", "")

\* the React state group of a screen: null, or the data of a snapshot
NoGroup == [exists |-> FALSE, status |-> "none", doc |-> NoGroupDoc]

\* a GroupDetailsScreen before its first snapshot
IdleScreen ==
  [group |-> NoGroup, pc |-> "idle", amount |-> 0, order |-> "", balance |-> 0, ops |-> 0]

VARIABLES
  orderStatus,   \* orders/{id}.status, "none" when the document does not exist
  orderFee,      \* orders/{id}.platformFee, NoFee when the field is absent
  groupStatus,   \* groups/{id}.status, "none" when the document does not exist
  groupMembers,  \* groups/{id}.members
  userDocs,      \* the users/{id} documents that exist
  balance,       \* users/{id}.wallet.balance
  ledger,        \* the transactions collection, a bag of entries
  items,         \* orders/{id}.items, the order item of each user
  initial,       \* the store as it was before any call
  proc           \* the state of each call of processOrderCompletion:
                 \*   pc          where the call is suspended
                 \*   call        its arguments, splits by the name of the list
                 \*   retryCount  the local of that name
                 \*   attempts    the number of runTransaction calls it made
                 \*   txRuns      runs of the update function in this runTransaction
                 \*   members, wallets  what the update function has read
                 \*   readSet     the documents the transaction has read
                 \*   dirty       a document of readSet was written outside the transaction
                 \*   batch       the writes queued in the write batch, a bag
                 \*   batchDone   batch.commit() has been called on the write batch
                 \*   loopIdx     the index in splits at which the for loop resumes
                 \*   opCount     the local operationCount
                 \*   result      the outcome of the call
                 \*   delays      its backoff waits, in milliseconds
                 \*   snap        the store as it was when the call was made
                 \*   faulted     the store rejected a request of the call
                 \*   committed   the transaction of the current attempt committed
                 \*   priorSuccess  a call for the same order had returned true before
VARIABLES
  noShow         \* the state of each call of processNoShow:
                 \*   pc          where the call is suspended
                 \*   call        its arguments
                 \*   txRuns      runs of the update function in its runTransaction
                 \*   penaltyAmount  the local of that name
                 \*   readSet, dirty  as for processOrderCompletion
                 \*   result      the outcome of the call
                 \*   snap        the store as it was when the call was made
                 \*   faulted     the store rejected a request of the call
                 \*   doneBefore  the calls that had ended when the call was made
                 \*   priorSuccess  a call for the same order and user had returned true
                 \*   afterSettlement  processOrderCompletion had returned true for the order

VARIABLES
  payments,      \* the payments collection, a bag of records
  session        \* the state of each WalletProvider (one per signed-in device):
                 \*   user        user.uid
                 \*   isTest      isTestUser(user.phoneNumber)
                 \*   balance     the React state of that name
                 \*   pc          where the running operation is suspended
                 \*   op, amount, to  the running operation and its arguments
                 \*   dirty       the recipient was written since the transfer read it
                 \*   txRuns      runs of the update function in its runTransaction
                 \*   calls       the number of operations started so far
                 \*   result      the outcome of the last operation

VARIABLES
  calc           \* the arguments of the calls of calculateSplit and, for each
                 \* caller, what its call returned or threw

VARIABLES
  groupDoc,      \* groups/{id}: members, memberCount, createdBy, currentOrder
  paid,          \* orders/{id}.items[user].paid, "absent" without the item
  screen         \* the GroupDetailsScreen of each user:
                 \*   group      the React state of that name, the last snapshot
                 \*   pc         where the running handler is suspended
                 \*   amount     the argument of handlePayOrder
                 \*   order      group.currentOrder.id as the running handler read it
                 \*   balance    the balance that useWallet() gives the screen
                 \*   ops        the number of buttons the user has pressed so far

dbVars == <<orderStatus, orderFee, groupStatus, groupMembers, userDocs, balance, ledger>>

noShowVars == <<items, noShow>>

walletVars == <<payments, session>>

splitVars == <<calc>>

screenVars == <<groupDoc, paid, screen>>

vars == <<dbVars, initial, proc, noShowVars, walletVars, splitVars, screenVars>>

\* ------------------------------------------------------------ pure helpers
\* splits.reduce((sum, split) => sum + split.finalAmount, 0)
SumFinal(splits) ==
  SumSeq([i \in 1..Len(splits) |-> splits[i].finalAmount], 1, Len(splits))

\* Number((x).toFixed(2)) of a value given in hundredths of a paise-percent:
\* n / 100 rounded to the nearest integer, half up
Round2(n) == (n + 50) \div 100

TotalAmount(splits) == SumFinal(splits)

PlatformFee(splits) == Round2(TotalAmount(splits) * PLATFORM_FEE_PERCENTAGE)

\* the leader's credit computed without taking the platform fee off
LeaderAmountNoFee(splits) == TotalAmount(splits)

LeaderAmount(splits) == TotalAmount(splits) - PlatformFee(splits)

\* the approval check looking at the first split only
AllApprovedFirstOnly(splits) == splits = <<>> \/ splits[1].approved

\* splits.every(split => split.approved)
AllApproved(splits) == \A i \in 1..Len(splits) : splits[i].approved

OrderKey(o) == <<"orders", o>>
GroupKey(g) == <<"groups", g>>
UserKey(u) == <<"users", u>>

SeqRange(s) == {s[i] : i \in 1..Len(s)}

Pending == [kind |-> "pending", val |-> ""]
Returned(v) == [kind |-> "return", val |-> v]
Thrown(code) == [kind |-> "throw", val |-> code]

\* ------------------------------------------------------ the write batch
NoEntry == [type |-> "", amount |-> 0, userId |-> "", groupId |-> "", orderId |-> "",
            status |-> "", platformFee |-> NoFee]

Entry(type, amt, u, g, o, fee) ==
  [type |-> type, amount |-> amt, userId |-> u, groupId |-> g, orderId |-> o,
   status |-> "completed", platformFee |-> fee]

\* batch.update(users/{u}, {'wallet.balance': increment(d)})
IncWrite(u, d) == [op |-> "inc", id |-> u, delta |-> d, entry |-> NoEntry]

\* batch.set(doc(collection(db, 'transactions')), entry)
SetWrite(e) == [op |-> "set", id |-> "", delta |-> 0, entry |-> e]

\* batch.update(orders/{o}, {status: 'completed', platformFee: fee, ...})
OrderWrite(o, fee) == [op |-> "order", id |-> o, delta |-> fee, entry |-> NoEntry]

\* the bag of the elements of a sequence
SeqToBag(s) == [e \in SeqRange(s) |-> Cardinality({i \in 1..Len(s) : s[i] = e})]

RECURSIVE SumDeltas(_, _)
SumDeltas(b, ws) ==
  IF ws = {} THEN 0
  ELSE LET w == CHOOSE x \in ws : TRUE
       IN  CopiesIn(w, b) * w.delta + SumDeltas(b, ws \ {w})

\* the sum of the increments that the writes of batch b apply to wallet u
DeltaFor(b, u) == SumDeltas(b, {w \in BagToSet(b) : w.op = "inc" /\ w.id = u})

\* the ledger entries that batch b creates
EntriesOf(b) ==
  LET sets == {w \in BagToSet(b) : w.op = "set"}
  IN  [e \in {w.entry : w \in sets} |-> CopiesIn(SetWrite(e), b)]

OrdersWritten(b) == {w.id : w \in {x \in BagToSet(b) : x.op = "order"}}

UsersWritten(b) == {w.id : w \in {x \in BagToSet(b) : x.op = "inc"}}

KeysWritten(b) ==
  {UserKey(u) : u \in UsersWritten(b)} \cup {OrderKey(o) : o \in OrdersWritten(b)}

FeeWritten(b, o) ==
  LET w == CHOOSE x \in BagToSet(b) : x.op = "order" /\ x.id = o
  IN  w.delta

\* ---------------------------------------------------- the update function
\* validateOrder without its check of the status 'completed'
OrderErrorSkipsCompleted(status) ==
  IF status = "none" THEN "ORDER_NOT_FOUND"
  ELSE IF status = "cancelled" THEN "ORDER_CANCELLED"
  ELSE ""

\* validateOrder: the code the order document makes it throw, "" for none
OrderError(status) ==
  IF status = "none" THEN "ORDER_NOT_FOUND"
  ELSE IF status = "completed" THEN "ORDER_COMPLETED"
  ELSE IF status = "cancelled" THEN "ORDER_CANCELLED"
  ELSE ""

\* validateGroupMembers
GroupError(status) ==
  IF status = "none" THEN "GROUP_NOT_FOUND"
  ELSE IF status # "ordered" THEN "INVALID_GROUP_STATUS"
  ELSE ""

\* validateUserWallets
UsersError(members, docs) ==
  IF \E i \in 1..Len(members) : members[i] \notin docs THEN "USER_NOT_FOUND" ELSE ""

\* the indices of splits from i on when the loop skips no split
VisitedAll(c, i) ==
  LET FromI(k) == k >= i
  IN  SelectSeq([k \in 1..Len(c.splits) |-> k], FromI)

\* the indices of splits from i on that the loop does not skip (line 296),
\* in the order in which it visits them
Visited(c, i) ==
  LET NotLeader(k) == k >= i /\ c.splits[k].userId # c.leaderId
  IN  SelectSeq([k \in 1..Len(c.splits) |-> k], NotLeader)

\* the error the loop body throws for one split (lines 298-305), "" for none
SplitError(split, wallets) ==
  IF split.userId \notin DOMAIN wallets THEN "WALLET_NOT_FOUND"
  ELSE IF wallets[split.userId] < split.finalAmount THEN "INSUFFICIENT_BALANCE"
  ELSE ""

\* the two writes the loop body queues for one split (lines 307-322)
DebitWrites(c, split) ==
  << IncWrite(split.userId, 0 - split.finalAmount),
     SetWrite(Entry("debit", split.finalAmount, split.userId, c.groupId, c.orderId, NoFee)) >>

\* the writes queued for the first m splits that the loop visits
QueuedWrites(c, todo, m) ==
  SeqToBag([j \in 1..(2 * m) |-> DebitWrites(c, c.splits[todo[(j + 1) \div 2]])[2 - (j % 2)]])

\* The for loop over splits from index i on, with n = operationCount and b the
\* queued writes, up to its next await or throw.  used: batch.commit() was
\* already called on the batch; refuse: the batch then rejects further writes.
\* The loop stops at the first split that throws, or whose two writes bring
\* operationCount to MAX_BATCH_SIZE.
DebitLoop(c, wallets, i, n, b, used, refuse) ==
  LET todo == Visited(c, i)
      stops == {m \in 1..Len(todo) :
                  \/ SplitError(c.splits[todo[m]], wallets) # ""
                  \/ used /\ refuse
                  \/ n + 2 * m >= MAX_BATCH_SIZE}
  IN  IF stops = {}
      THEN [kind |-> "end", code |-> "", batch |-> b (+) QueuedWrites(c, todo, Len(todo)),
            idx |-> Len(c.splits) + 1, n |-> n + 2 * Len(todo)]
      ELSE
        LET m == CHOOSE x \in stops : \A y \in stops : x <= y
            err == SplitError(c.splits[todo[m]], wallets)
        IN  IF err # ""
            THEN [kind |-> "throw", code |-> err, batch |-> b (+) QueuedWrites(c, todo, m - 1),
                  idx |-> todo[m], n |-> n + 2 * (m - 1)]
            ELSE IF used /\ refuse
            THEN [kind |-> "throw", code |-> "BATCH_COMMITTED",
                  batch |-> b (+) QueuedWrites(c, todo, m - 1),
                  idx |-> todo[m], n |-> n + 2 * (m - 1)]
            ELSE [kind |-> "commit", code |-> "", batch |-> b (+) QueuedWrites(c, todo, m),
                  idx |-> todo[m] + 1, n |-> 0]

\* the writes queued after the loop: leader credit, its ledger entry, the order
LeaderWrites(c) ==
  SeqToBag(
  << IncWrite(c.leaderId, LeaderAmount(c.splits)),
     SetWrite(Entry("credit", LeaderAmount(c.splits), c.leaderId, c.groupId, c.orderId,
                    PlatformFee(c.splits))),
     OrderWrite(c.orderId, PlatformFee(c.splits)) >>)

\* -------------------------------------------------------- the retry loop
\* the condition of line 370 with > for >=
ShouldRethrowLate(rc, code) == rc > MAX_RETRIES \/ ~IsOrderProcessingError(code)

\* the condition of line 370 under which the catch block rethrows
ShouldRethrow(rc, code) == rc >= MAX_RETRIES \/ ~IsOrderProcessingError(code)

\* Math.pow(2, retryCount) * 1000
BackoffDelay(rc) == (2 ^ rc) * 1000

FreshRun(s) ==
  [s EXCEPT !.members = <<>>, !.wallets = <<>>, !.readSet = {}, !.dirty = FALSE,
            !.batch = EmptyBag, !.batchDone = FALSE, !.loopIdx = 1, !.opCount = 0]

\* the catch block of processOrderCompletion
Catch(s, code) ==
  LET rc == s.retryCount + 1 IN
  IF ShouldRethrow(rc, code)
  THEN [FreshRun(s) EXCEPT !.retryCount = rc, !.pc = "done", !.result = Thrown(code)]
  ELSE [FreshRun(s) EXCEPT !.retryCount = rc, !.pc = "backoff",
                           !.delays = Append(@, BackoffDelay(rc))]

\* the head of the while loop: another runTransaction, or the final return false
WhileHead(s) ==
  IF s.retryCount < MAX_RETRIES
  THEN [FreshRun(s) EXCEPT !.pc = "validateOrder", !.attempts = @ + 1, !.txRuns = 1,
                           !.committed = FALSE]
  ELSE [s EXCEPT !.pc = "done", !.result = Returned("false")]

\* ------------------------------------------------------------------ Init
Store == [balance |-> balance, ledger |-> ledger, orderStatus |-> orderStatus,
          orderFee |-> orderFee, groupStatus |-> groupStatus, items |-> items]

NoStore == [balance |-> [u \in Users |-> 0], ledger |-> EmptyBag,
            orderStatus |-> [o \in Orders |-> "none"], orderFee |-> [o \in Orders |-> NoFee],
            groupStatus |-> [g \in Groups |-> "none"],
            items |-> [o \in Orders |-> [u \in Users |-> NoItem]]]

\* no call of calculateSplit is made
NoCalc == calc = IdleCalc

\* no group screen is open and the group documents hold no member
NoScreens ==
  /\ groupDoc = [g \in Groups |-> NoGroupDoc]
  /\ paid = [o \in Orders |-> [u \in Users |-> "absent"]]
  /\ screen = [u \in Users |-> IdleScreen]

InitProc(c) ==
  [pc |-> "idle", call |-> c, retryCount |-> 0, attempts |-> 0, txRuns |-> 0,
   members |-> <<>>, wallets |-> <<>>, readSet |-> {}, dirty |-> FALSE,
   batch |-> EmptyBag, batchDone |-> FALSE, loopIdx |-> 1, opCount |-> 0,
   result |-> Pending, delays |-> <<>>, snap |-> NoStore, faulted |-> FALSE,
   committed |-> FALSE, priorSuccess |-> FALSE]

IdleNoShow(c) ==
  [pc |-> "idle", call |-> c, txRuns |-> 0, penaltyAmount |-> 0, readSet |-> {},
   dirty |-> FALSE, result |-> Pending, snap |-> NoStore, faulted |-> FALSE,
   doneBefore |-> {}, priorSuccess |-> FALSE, afterSettlement |-> FALSE]

IdleSession(u, test, bal) ==
  [user |-> u, isTest |-> test, balance |-> bal, pc |-> "idle", op |-> "", amount |-> 0,
   to |-> "", dirty |-> FALSE, txRuns |-> 0, calls |-> 0, result |-> Pending]

Init ==
  /\ orderStatus \in [Orders -> {"none", "pending", "completed", "cancelled"}]
  /\ orderStatus["o2"] = "none"
  /\ orderFee = [o \in Orders |-> NoFee]
  /\ groupStatus \in [Groups -> {"none", "open", "ordered"}]
  /\ groupStatus["g2"] = "none"
  /\ groupMembers \in [Groups -> MemberChoices]
  /\ groupMembers["g2"] = groupMembers["g1"]
  /\ userDocs \in UserDocChoices
  /\ balance \in [Users -> {0, LowBalance, HighBalance}]
  /\ balance[Leader] = 0
  /\ \A u \in Users \ {Leader} :
       IF u \in userDocs THEN balance[u] \in {LowBalance, HighBalance} ELSE balance[u] = 0
  /\ ledger = EmptyBag
  /\ items = ItemsOf(ApprovedSplits)
  /\ initial = Store
  /\ \E sp \in {"approved", "unapproved", "bulk"} :
       proc = [p \in Procs |->
                 InitProc([groupId |-> "g1", orderId |-> "o1", leaderId |-> Leader,
                           splits |-> sp])]
  /\ noShow = [q \in NoShowProcs |-> IdleNoShow(NoShowArgs("m1"))]
  /\ payments = EmptyBag
  /\ session = [q \in Sessions |-> IdleSession("m1", TRUE, 0)]
  /\ NoCalc
  /\ NoScreens

\* --------------------------------------------------------------- actions
\* after a failed run of the update function runTransaction runs it again,
\* or rejects with the error
Rerun(s, giveUp, code) ==
  IF s.txRuns < MaxTxRuns /\ ~giveUp
  THEN [FreshRun(s) EXCEPT !.pc = "validateOrder", !.txRuns = @ + 1]
  ELSE Catch(s, code)

\* what the update function does with an error it throws: an
\* OrderProcessingError rejects runTransaction, an error of the store is
\* handled like any failed run
Reject(s, code, giveUp) ==
  IF IsOrderProcessingError(code) THEN Catch(s, code) ELSE Rerun(s, giveUp, code)

\* the update function from the end of its reads to its next await or throw
RunLoop(s, refuse, giveUp) ==
  LET r == DebitLoop(Args(s.call), s.wallets, s.loopIdx, s.opCount, s.batch, s.batchDone, refuse)
  IN  IF r.kind = "throw" THEN Reject(s, r.code, giveUp)
      ELSE IF r.kind = "commit"
      THEN [s EXCEPT !.batch = r.batch, !.loopIdx = r.idx, !.opCount = r.n,
                     !.pc = "batchCommit"]
      ELSE IF s.batchDone /\ refuse THEN Reject(s, "BATCH_COMMITTED", giveUp)
      ELSE [s EXCEPT !.batch = r.batch (+) LeaderWrites(Args(s.call)), !.loopIdx = r.idx,
                     !.opCount = r.n, !.pc = "finalCommit"]

AfterReads(s) ==
  IF ~AllApproved(Args(s.call).splits) THEN Catch(s, "SPLITS_NOT_APPROVED")
  ELSE RunLoop(s, FALSE, TRUE)

\* every open transaction that has read one of the keys is marked
Touch(keys) ==
  [q \in Procs |-> [proc[q] EXCEPT !.dirty = @ \/ (keys \cap proc[q].readSet # {})]]

\* the open transactions of processNoShow calls that have read one of the keys
TouchNoShow(keys) ==
  [q \in NoShowProcs |-> [noShow[q] EXCEPT !.dirty = @ \/ (keys \cap noShow[q].readSet # {})]]

\* the open transfers that have read one of the keys
TouchSessions(keys) ==
  [q \in Sessions |->
     [session[q] EXCEPT !.dirty = @ \/ (session[q].pc = "transferCommit"
                                          /\ UserKey(session[q].to) \in keys)]]

\* a write of the keys made by a call of processOrderCompletion, as the
\* transactions of the other operations see it
TouchOthers(keys) ==
  /\ noShow' = TouchNoShow(keys)
  /\ session' = TouchSessions(keys)

\* a client calls processOrderCompletion(groupId, orderId, leaderId, splits)
Call(p) ==
  /\ proc[p].pc = "idle"
  /\ proc' = [proc EXCEPT ![p] =
       WhileHead([@ EXCEPT !.snap = Store,
                           !.priorSuccess =
                              \E q \in Procs : /\ proc[q].result = Returned("true")
                                               /\ Args(proc[q].call).orderId = Args(proc[p].call).orderId])]
  /\ UNCHANGED <<dbVars, initial, splitVars, screenVars, noShowVars, walletVars>>

\* await transaction.get(orderRef) and the checks of validateOrder
ValidateOrder(p) ==
  /\ proc[p].pc = "validateOrder"
  /\ LET s == [proc[p] EXCEPT !.readSet = @ \cup {OrderKey(Args(proc[p].call).orderId)}]
         err == OrderError(orderStatus[Args(s.call).orderId])
     IN  proc' = [proc EXCEPT ![p] =
           IF err # "" THEN Catch(s, err) ELSE [s EXCEPT !.pc = "validateGroup"]]
  /\ UNCHANGED <<dbVars, initial, splitVars, screenVars, noShowVars, walletVars>>

\* await transaction.get(groupRef) and the checks of validateGroupMembers
ValidateGroupMembers(p) ==
  /\ proc[p].pc = "validateGroup"
  /\ LET s == [proc[p] EXCEPT !.readSet = @ \cup {GroupKey(Args(proc[p].call).groupId)}]
         err == GroupError(groupStatus[Args(s.call).groupId])
     IN  proc' = [proc EXCEPT ![p] =
           IF err # "" THEN Catch(s, err)
           ELSE [s EXCEPT !.pc = "validateWallets",
                          !.members = groupMembers[Args(s.call).groupId]]]
  /\ UNCHANGED <<dbVars, initial, splitVars, screenVars, noShowVars, walletVars>>

\* validateUserWallets, then the update function up to its first batch.commit()
ValidateUserWallets(p) ==
  /\ proc[p].pc = "validateWallets"
  /\ LET ms == proc[p].members
         s == [proc[p] EXCEPT !.readSet = @ \cup {UserKey(u) : u \in SeqRange(ms)}]
         err == UsersError(ms, userDocs)
     IN  proc' = [proc EXCEPT ![p] =
           IF err # "" THEN Catch(s, err)
           ELSE AfterReads([s EXCEPT !.wallets = [u \in SeqRange(ms) |-> balance[u]]])]
  /\ UNCHANGED <<dbVars, initial, splitVars, screenVars, noShowVars, walletVars>>

\* a store in which a wallet update sets the balance to the balance before
\* any call plus the amount, instead of adding the amount
ApplyBatchLastWriteWins(b) ==
  /\ balance' = [u \in Users |->
       IF u \in UsersWritten(b) THEN initial.balance[u] + DeltaFor(b, u) ELSE balance[u]]
  /\ ledger' = ledger (+) EntriesOf(b)
  /\ orderStatus' = [o \in Orders |->
       IF o \in OrdersWritten(b) THEN "completed" ELSE orderStatus[o]]
  /\ orderFee' = [o \in Orders |->
       IF o \in OrdersWritten(b) THEN FeeWritten(b, o) ELSE orderFee[o]]

\* the store applies the writes of a batch as one unit; increment(d) adds d
\* to the balance that the store holds
ApplyBatch(b) ==
  /\ balance' = [u \in Users |-> balance[u] + DeltaFor(b, u)]
  /\ ledger' = ledger (+) EntriesOf(b)
  /\ orderStatus' = [o \in Orders |->
       IF o \in OrdersWritten(b) THEN "completed" ELSE orderStatus[o]]
  /\ orderFee' = [o \in Orders |->
       IF o \in OrdersWritten(b) THEN FeeWritten(b, o) ELSE orderFee[o]]

\* await batch.commit() inside the loop (line 326), then the loop goes on
BatchCommit(p) ==
  /\ proc[p].pc = "batchCommit"
  /\ ApplyBatch(proc[p].batch)
  /\ \E refuse, giveUp \in BOOLEAN :
       LET touched == Touch(KeysWritten(proc[p].batch))
           s == [touched[p] EXCEPT !.batch = EmptyBag, !.batchDone = TRUE]
       IN  proc' = [touched EXCEPT ![p] = RunLoop(s, refuse, giveUp)]
  /\ TouchOthers(KeysWritten(proc[p].batch))
  /\ UNCHANGED <<groupStatus, groupMembers, userDocs, initial, splitVars, screenVars, items, payments>>

\* await batch.commit() after the loop (line 361), then transaction.delete
FinalCommit(p) ==
  /\ proc[p].pc = "finalCommit"
  /\ ApplyBatch(proc[p].batch)
  /\ LET touched == Touch(KeysWritten(proc[p].batch))
     IN  proc' = [touched EXCEPT ![p] =
           [@ EXCEPT !.batch = EmptyBag, !.batchDone = TRUE, !.pc = "txCommit"]]
  /\ TouchOthers(KeysWritten(proc[p].batch))
  /\ UNCHANGED <<groupStatus, groupMembers, userDocs, initial, splitVars, screenVars, items, payments>>

\* the update function has returned: the transaction commits its one write,
\* the deletion of the group, and processOrderCompletion returns true
TxCommit(p) ==
  /\ proc[p].pc = "txCommit"
  /\ groupStatus' = [groupStatus EXCEPT ![Args(proc[p].call).groupId] = "none"]
  /\ LET touched == Touch({GroupKey(Args(proc[p].call).groupId)})
     IN  proc' = [touched EXCEPT ![p] =
           [FreshRun(@) EXCEPT !.pc = "done", !.committed = TRUE,
                               !.result = Returned("true")]]
  /\ TouchOthers({GroupKey(Args(proc[p].call).groupId)})
  /\ UNCHANGED <<orderStatus, orderFee, groupMembers, userDocs, balance, ledger, initial, splitVars, screenVars,
                 items, payments>>

\* the store aborts the transaction at commit: a document that the
\* transaction has read was written outside of it since
TxAbort(p) ==
  /\ proc[p].pc = "txCommit"
  /\ proc[p].dirty
  /\ \E giveUp \in BOOLEAN :
       proc' = [proc EXCEPT ![p] = Rerun(@, giveUp, "ABORTED")]
  /\ UNCHANGED <<dbVars, initial, splitVars, screenVars, noShowVars, walletVars>>

AwaitingStore == {"validateOrder", "validateGroup", "validateWallets",
                  "batchCommit", "finalCommit", "txCommit"}

\* the store rejects the pending request of the call (network, quota)
TransientFailure(p) ==
  /\ proc[p].pc \in AwaitingStore
  /\ \E giveUp \in BOOLEAN :
       proc' = [proc EXCEPT ![p] = Rerun([@ EXCEPT !.faulted = TRUE], giveUp, "UNAVAILABLE")]
  /\ UNCHANGED <<dbVars, initial, splitVars, screenVars, noShowVars, walletVars>>

\* the setTimeout of line 374 fires and the while loop goes round
BackoffElapsed(p) ==
  /\ proc[p].pc = "backoff"
  /\ proc' = [proc EXCEPT ![p] = WhileHead(@)]
  /\ UNCHANGED <<dbVars, initial, splitVars, screenVars, noShowVars, walletVars>>

Next ==
  \E p \in Procs :
    \/ Call(p)
    \/ ValidateOrder(p)
    \/ ValidateGroupMembers(p)
    \/ ValidateUserWallets(p)
    \/ BatchCommit(p)
    \/ FinalCommit(p)
    \/ TxCommit(p)
    \/ TxAbort(p)
    \/ TransientFailure(p)
    \/ BackoffElapsed(p)

Spec == Init /\ [][Next]_vars

\* ============================================================ processNoShow
\* the penalty taken as 2% of the share
PenaltyAmountTenth(item) == Round2(item.finalAmount * 2)

\* Number((userItem.finalAmount * (NO_SHOW_PENALTY_PERCENTAGE / 100)).toFixed(2))
PenaltyAmount(item) == Round2(item.finalAmount * NO_SHOW_PENALTY_PERCENTAGE)

\* the checks of the item without the one of its noShow flag
ItemErrorIgnoresNoShow(item) ==
  IF ~item.present THEN "ITEM_NOT_FOUND" ELSE ""

\* the checks of lines 393-399 on orderData.items[userId], "" when they pass
ItemError(item) ==
  IF ~item.present THEN "ITEM_NOT_FOUND"
  ELSE IF item.noShow THEN "ALREADY_NO_SHOW"
  ELSE ""

\* the two ledger entries of a penalty (lines 426-447)
PenaltyDebit(c, pen) == Entry("debit", pen, c.userId, c.groupId, c.orderId, NoFee)

PenaltyCredit(c, pen) == Entry("credit", pen, c.leaderId, c.groupId, c.orderId, NoFee)

\* the documents the batch of processNoShow writes
NoShowKeys(c) == {OrderKey(c.orderId), UserKey(c.userId), UserKey(c.leaderId)}

\* the calls that have ended
DoneNow ==
  {q \in Procs : proc[q].pc = "done"} \cup {q \in NoShowProcs : noShow[q].pc = "done"}

\* the catch block of processNoShow (lines 460-465)
NoShowCatch(s, code) ==
  [s EXCEPT !.pc = "done", !.readSet = {}, !.dirty = FALSE,
            !.result = Thrown(IF IsOrderProcessingError(code) THEN code
                              ELSE "PROCESSING_ERROR")]

\* after a failed run of the update function runTransaction runs it again,
\* or rejects with the error
NoShowRerun(s, giveUp, code) ==
  IF s.txRuns < MaxTxRuns /\ ~giveUp
  THEN [s EXCEPT !.pc = "validateOrder", !.txRuns = @ + 1, !.readSet = {},
                 !.dirty = FALSE, !.penaltyAmount = 0]
  ELSE NoShowCatch(s, code)

\* a client calls processNoShow(groupId, orderId, userId, leaderId)
NoShowCall(p) ==
  /\ noShow[p].pc = "idle"
  /\ noShow' = [noShow EXCEPT ![p] =
       [@ EXCEPT !.pc = "validateOrder", !.txRuns = 1, !.snap = Store,
                 !.doneBefore = DoneNow,
                 !.priorSuccess =
                    \E q \in NoShowProcs : /\ noShow[q].result = Returned("true")
                                           /\ noShow[q].call = noShow[p].call,
                 !.afterSettlement =
                    \E q \in Procs : /\ proc[q].result = Returned("true")
                                     /\ Args(proc[q].call).orderId = noShow[p].call.orderId]]
  /\ UNCHANGED <<dbVars, initial, splitVars, screenVars, proc, items, walletVars>>

\* validateOrder, then the checks of the user's item and the penalty (390-402)
NoShowValidateOrder(p) ==
  /\ noShow[p].pc = "validateOrder"
  /\ LET c == noShow[p].call
         s == [noShow[p] EXCEPT !.readSet = @ \cup {OrderKey(c.orderId)}]
         err == OrderError(orderStatus[c.orderId])
         userItem == items[c.orderId][c.userId]
     IN  noShow' = [noShow EXCEPT ![p] =
           IF err # "" THEN NoShowCatch(s, err)
           ELSE IF ItemError(userItem) # "" THEN NoShowCatch(s, ItemError(userItem))
           ELSE [s EXCEPT !.pc = "validateWallets",
                          !.penaltyAmount = PenaltyAmount(userItem)]]
  /\ UNCHANGED <<dbVars, initial, splitVars, screenVars, proc, items, walletVars>>

\* validateUserWallets([userId, leaderId]), the balance check, and the five
\* writes queued in the batch (405-454)
NoShowValidateWallets(p) ==
  /\ noShow[p].pc = "validateWallets"
  /\ LET c == noShow[p].call
         s == [noShow[p] EXCEPT !.readSet = @ \cup {UserKey(c.userId), UserKey(c.leaderId)}]
         err == UsersError(<<c.userId, c.leaderId>>, userDocs)
     IN  noShow' = [noShow EXCEPT ![p] =
           IF err # "" THEN NoShowCatch(s, err)
           ELSE IF balance[c.userId] < s.penaltyAmount
           THEN NoShowCatch(s, "INSUFFICIENT_BALANCE")
           ELSE [s EXCEPT !.pc = "batchCommit"]]
  /\ UNCHANGED <<dbVars, initial, splitVars, screenVars, proc, items, walletVars>>

\* await batch.commit() (line 456): the store applies the five writes as one
NoShowBatchCommit(p) ==
  /\ noShow[p].pc = "batchCommit"
  /\ LET c == noShow[p].call
         pen == noShow[p].penaltyAmount
         touched == TouchNoShow(NoShowKeys(c))
     IN  /\ balance' = [u \in Users |->
                          balance[u] - (IF u = c.userId THEN pen ELSE 0)
                                     + (IF u = c.leaderId THEN pen ELSE 0)]
         /\ ledger' = ledger (+) SetToBag({PenaltyDebit(c, pen)})
                             (+) SetToBag({PenaltyCredit(c, pen)})
         /\ items' = [items EXCEPT ![c.orderId][c.userId] =
                        [@ EXCEPT !.noShow = TRUE, !.noShowPenalty = pen]]
         /\ noShow' = [touched EXCEPT ![p] = [@ EXCEPT !.pc = "txCommit"]]
         /\ proc' = Touch(NoShowKeys(c))
         /\ session' = TouchSessions(NoShowKeys(c))
  /\ UNCHANGED <<orderStatus, orderFee, groupStatus, groupMembers, userDocs, initial, splitVars, screenVars, payments>>

\* the update function has returned: the transaction, which has no write,
\* commits, and processNoShow returns true
NoShowTxCommit(p) ==
  /\ noShow[p].pc = "txCommit"
  /\ noShow' = [noShow EXCEPT ![p] =
       [@ EXCEPT !.pc = "done", !.readSet = {}, !.dirty = FALSE,
                 !.result = Returned("true")]]
  /\ UNCHANGED <<dbVars, initial, splitVars, screenVars, proc, items, walletVars>>

\* the store aborts the transaction at commit: a document that the
\* transaction has read was written outside of it since
NoShowTxAbort(p) ==
  /\ noShow[p].pc = "txCommit"
  /\ noShow[p].dirty
  /\ \E giveUp \in BOOLEAN :
       noShow' = [noShow EXCEPT ![p] = NoShowRerun(@, giveUp, "ABORTED")]
  /\ UNCHANGED <<dbVars, initial, splitVars, screenVars, proc, items, walletVars>>

\* the store rejects the pending request of the call (network, quota)
NoShowTransientFailure(p) ==
  /\ noShow[p].pc \in {"validateOrder", "validateWallets", "batchCommit", "txCommit"}
  /\ \E giveUp \in BOOLEAN :
       noShow' = [noShow EXCEPT ![p] =
                    NoShowRerun([@ EXCEPT !.faulted = TRUE], giveUp, "UNAVAILABLE")]
  /\ UNCHANGED <<dbVars, initial, splitVars, screenVars, proc, items, walletVars>>

\* the orders that calls of processNoShow are made on: the order exists or
\* not, with or without an item of m2; one client settles the order with
\* the approved shares and two clients report a no-show
InitNoShow ==
  /\ orderStatus \in [Orders -> {"none", "pending", "completed", "cancelled"}]
  /\ orderStatus["o2"] = "none"
  /\ orderFee = [o \in Orders |-> NoFee]
  /\ groupStatus = [g \in Groups |-> IF g = "g1" THEN "ordered" ELSE "none"]
  /\ groupMembers = [g \in Groups |-> <<"L", "m1", "m2">>]
  /\ userDocs \in UserDocChoices
  /\ balance \in [Users -> {0, LowBalance, HighBalance}]
  /\ balance[Leader] = 0
  /\ \A u \in Users \ {Leader} :
       IF u \in userDocs THEN balance[u] \in {LowBalance, HighBalance} ELSE balance[u] = 0
  /\ ledger = EmptyBag
  /\ items \in {ItemsOf(ApprovedSplits), WithoutItem(ItemsOf(ApprovedSplits), "m2")}
  /\ initial = Store
  /\ proc = [p \in Procs |->
               InitProc([groupId |-> "g1", orderId |-> "o1", leaderId |-> Leader,
                         splits |-> "approved"])]
  /\ noShow \in [NoShowProcs -> {IdleNoShow(NoShowArgs(u)) : u \in {"m1", "m2"}}]
  /\ payments = EmptyBag
  /\ session = [q \in Sessions |-> IdleSession("m1", TRUE, 0)]
  /\ NoCalc
  /\ NoScreens

\* the one client that settles the order
Settler == "c1"

NextNoShow ==
  \/ Call(Settler)
  \/ ValidateOrder(Settler)
  \/ ValidateGroupMembers(Settler)
  \/ ValidateUserWallets(Settler)
  \/ FinalCommit(Settler)
  \/ TxCommit(Settler)
  \/ TxAbort(Settler)
  \/ BackoffElapsed(Settler)
  \/ \E p \in NoShowProcs :
       \/ NoShowCall(p)
       \/ NoShowValidateOrder(p)
       \/ NoShowValidateWallets(p)
       \/ NoShowBatchCommit(p)
       \/ NoShowTxCommit(p)
       \/ NoShowTxAbort(p)
       \/ NoShowTransientFailure(p)

SpecNoShow == InitNoShow /\ [][NextNoShow]_vars

\* ====================================== WalletProvider and PaymentHandler
\* rupees in paise
Paise(rupees) == rupees * 100

\* the amounts an operation is called with: none and 700.00
Amounts == {0, 70000}

\* the users a transfer or a test payment is made to
Payees == {"m1", "m2"}

WalletOps == {"addMoney", "deductMoney", "transferMoney", "processTestPayment"}

\* a document of the transactions collection written by WalletProvider; the
\* fields toUserId and fromUserId of a transfer are left out
WalletEntry(type, amt, u) == Entry(type, amt, u, "", "", NoFee)

\* a document of the payments collection
Payment(u, amt) == [userId |-> u, amount |-> amt, status |-> "completed", type |-> "test"]

\* validateTransactionAmount: the message of the error it throws, "" for none
AmountError(amount) ==
  IF amount <= 0 THEN "Invalid transaction amount"
  ELSE IF amount < Paise(MIN_TRANSACTION_AMOUNT) THEN "Minimum transaction amount"
  ELSE IF amount > Paise(MAX_TRANSACTION_AMOUNT) THEN "Maximum transaction amount"
  ELSE ""

RECURSIVE SumAmounts(_, _)
SumAmounts(b, es) ==
  IF es = {} THEN 0
  ELSE LET e == CHOOSE x \in es : TRUE
       IN  CopiesIn(e, b) * e.amount + SumAmounts(b, es \ {e})

\* dailyTotal of checkDailyLimit: every entry of the model is of today
DailyTotal(u) ==
  SumAmounts(ledger, {e \in BagToSet(ledger) :
                        e.userId = u /\ e.type \in {"credit", "debit", "transfer_out"}})

\* checkDailyLimit: the message of the error it throws, "" for none
DailyLimitError(u, amount) ==
  IF DailyTotal(u) + amount > Paise(MAX_DAILY_TRANSACTION_LIMIT)
  THEN "Daily transaction limit exceeded" ELSE ""

\* the outer catch of an operation: the error reaches the caller as WalletError
WalletThrow(s, msg) ==
  [s EXCEPT !.pc = "idle", !.dirty = FALSE, !.result = Thrown(msg)]

\* the synchronous start of an operation, up to its first await
Started(s, op, amount, to) ==
  LET t == [s EXCEPT !.op = op, !.amount = amount, !.to = to, !.calls = @ + 1,
                     !.txRuns = 0, !.dirty = FALSE, !.result = Pending]
  IN  IF op = "processTestPayment" THEN [t EXCEPT !.pc = "addPayment"]
      ELSE IF op = "transferMoney" /\ to = s.user
      THEN WalletThrow(t, "Cannot transfer money to yourself")
      ELSE IF AmountError(amount) # "" THEN WalletThrow(t, AmountError(amount))
      ELSE IF op = "deductMoney"
      THEN IF s.balance < amount THEN WalletThrow(t, "Insufficient balance")
           ELSE [t EXCEPT !.pc = "commit", !.txRuns = 1]
      ELSE [t EXCEPT !.pc = "dailyLimit"]

\* the user calls addMoney(amount), deductMoney(amount) or
\* transferMoney(to, amount), or processTestPayment(to, amount) is called
Begin(p) ==
  /\ session[p].pc = "idle"
  /\ session[p].calls < MaxCalls
  /\ \E op \in WalletOps, amount \in Amounts, to \in Payees :
       /\ op \in {"addMoney", "deductMoney"} => to = session[p].user
       /\ session' = [session EXCEPT ![p] = Started(@, op, amount, to)]
  /\ UNCHANGED <<dbVars, initial, splitVars, screenVars, proc, noShowVars, payments>>

\* await checkDailyLimit(user.uid, amount), then the checks before runTransaction
CheckDailyLimit(p) ==
  /\ session[p].pc = "dailyLimit"
  /\ LET s == session[p]
         err == DailyLimitError(s.user, s.amount)
     IN  session' = [session EXCEPT ![p] =
           IF err # "" THEN WalletThrow(s, err)
           ELSE IF s.op = "addMoney"
           THEN IF ~s.isTest
                THEN WalletThrow(s, "Direct wallet funding is only available for test users")
                ELSE [s EXCEPT !.pc = "commit", !.txRuns = 1]
           ELSE IF s.balance < s.amount THEN WalletThrow(s, "Insufficient balance")
           ELSE [s EXCEPT !.pc = "transferRead", !.txRuns = 1]]
  /\ UNCHANGED <<dbVars, initial, splitVars, screenVars, proc, noShowVars, payments>>

\* await transaction.get(recipientRef) in transferMoney
TransferRead(p) ==
  /\ session[p].pc = "transferRead"
  /\ session' = [session EXCEPT ![p] =
       IF @.to \notin userDocs THEN WalletThrow(@, "Recipient not found")
       ELSE [@ EXCEPT !.pc = "transferCommit", !.dirty = FALSE]]
  /\ UNCHANGED <<dbVars, initial, splitVars, screenVars, proc, noShowVars, payments>>

\* the increments that the transaction of an operation writes
WalletDelta(s, u) ==
  IF s.op = "addMoney" THEN (IF u = s.user THEN s.amount ELSE 0)
  ELSE IF s.op = "deductMoney" THEN (IF u = s.user THEN 0 - s.amount ELSE 0)
  ELSE (IF u = s.user THEN 0 - s.amount ELSE 0) + (IF u = s.to THEN s.amount ELSE 0)

\* the entries that the transaction of an operation writes, status 'completed'
WalletEntries(s) ==
  IF s.op = "addMoney" THEN SetToBag({WalletEntry("credit", s.amount, s.user)})
  ELSE IF s.op = "deductMoney" THEN SetToBag({WalletEntry("debit", s.amount, s.user)})
  ELSE SetToBag({WalletEntry("transfer_out", s.amount, s.user)})
         (+) SetToBag({WalletEntry("transfer_in", s.amount, s.to)})

WalletKeys(s) ==
  IF s.op = "transferMoney" THEN {UserKey(s.user), UserKey(s.to)} ELSE {UserKey(s.user)}

\* the transaction of addMoney, deductMoney or transferMoney commits
Commit(p) ==
  /\ session[p].pc \in {"commit", "transferCommit"}
  /\ LET s == session[p]
         touched == TouchSessions(WalletKeys(s))
     IN  /\ balance' = [u \in Users |-> balance[u] + WalletDelta(s, u)]
         /\ ledger' = ledger (+) WalletEntries(s)
         /\ session' = [touched EXCEPT ![p] = [s EXCEPT !.pc = "refresh", !.dirty = FALSE]]
         /\ proc' = Touch(WalletKeys(s))
         /\ noShow' = TouchNoShow(WalletKeys(s))
  /\ UNCHANGED <<orderStatus, orderFee, groupStatus, groupMembers, userDocs, initial, splitVars, screenVars,
                 items, payments>>

\* the store aborts the transaction of transferMoney: the recipient was
\* written since it was read; runTransaction runs the update function again
\* or rejects
TransferAbort(p) ==
  /\ session[p].pc = "transferCommit"
  /\ session[p].dirty
  /\ \E giveUp \in BOOLEAN :
       session' = [session EXCEPT ![p] =
         IF @.txRuns < MaxTxRuns /\ ~giveUp
         THEN [@ EXCEPT !.pc = "transferRead", !.txRuns = @ + 1, !.dirty = FALSE]
         ELSE WalletThrow(@, "ABORTED")]
  /\ UNCHANGED <<dbVars, initial, splitVars, screenVars, proc, noShowVars, payments>>

\* await refreshWallet(): setBalance(userData.wallet.balance), and the
\* operation resolves
RefreshWallet(p) ==
  /\ session[p].pc = "refresh"
  /\ session' = [session EXCEPT ![p] =
       [@ EXCEPT !.pc = "idle", !.balance = balance[session[p].user],
                 !.result = Returned("ok")]]
  /\ UNCHANGED <<dbVars, initial, splitVars, screenVars, proc, noShowVars, payments>>

\* await addDoc(collection(db, 'payments'), ...) in processTestPayment
AddPayment(p) ==
  /\ session[p].pc = "addPayment"
  /\ payments' = payments (+) SetToBag({Payment(session[p].to, session[p].amount)})
  /\ session' = [session EXCEPT ![p] = [@ EXCEPT !.pc = "updateWallet"]]
  /\ UNCHANGED <<dbVars, initial, splitVars, screenVars, proc, noShowVars>>

\* await updateDoc(userRef, {'wallet.balance': amount}) in processTestPayment;
\* updateDoc rejects when the document does not exist, and the catch block
\* returns {success: false}
UpdateWallet(p) ==
  /\ session[p].pc = "updateWallet"
  /\ LET s == session[p]
         keys == {UserKey(s.to)}
         touched == TouchSessions(keys)
     IN  IF s.to \in userDocs
         THEN /\ balance' = [balance EXCEPT ![s.to] = s.amount]
              /\ session' = [touched EXCEPT ![p] =
                   [touched[p] EXCEPT !.pc = "idle", !.result = Returned("success")]]
              /\ proc' = Touch(keys)
              /\ noShow' = TouchNoShow(keys)
         ELSE /\ session' = [session EXCEPT ![p] =
                   [s EXCEPT !.pc = "idle", !.result = Returned("failure")]]
              /\ UNCHANGED <<balance, proc, noShow>>
  /\ UNCHANGED <<orderStatus, orderFee, groupStatus, groupMembers, userDocs, ledger,
                 initial, splitVars, screenVars, items, payments>>

\* two devices: one signed in as m1, a test user; the other as m1 again or
\* as m2, who is no test user.  Each WalletProvider has refreshed its balance.
InitWallet ==
  /\ orderStatus = [o \in Orders |-> "none"]
  /\ orderFee = [o \in Orders |-> NoFee]
  /\ groupStatus = [g \in Groups |-> "none"]
  /\ groupMembers = [g \in Groups |-> <<"L", "m1", "m2">>]
  /\ userDocs \in UserDocChoices
  /\ balance \in [Users -> {0, LowBalance, HighBalance}]
  /\ balance[Leader] = 0
  /\ \A u \in Users \ {Leader} :
       IF u \in userDocs THEN balance[u] \in {LowBalance, HighBalance} ELSE balance[u] = 0
  /\ ledger = EmptyBag
  /\ items = [o \in Orders |-> [u \in Users |-> NoItem]]
  /\ initial = Store
  /\ proc = [p \in Procs |->
               InitProc([groupId |-> "g1", orderId |-> "o1", leaderId |-> Leader,
                         splits |-> "approved"])]
  /\ noShow = [q \in NoShowProcs |-> IdleNoShow(NoShowArgs("m1"))]
  /\ payments = EmptyBag
  /\ \E second \in {u \in {"m1", "m2"} : u \in userDocs} :
       session = [q \in Sessions |->
                    IF q = "s1" THEN IdleSession("m1", TRUE, balance["m1"])
                    ELSE IdleSession(second, second = "m1", balance[second])]
  /\ NoCalc
  /\ NoScreens

NextWallet ==
  \E p \in Sessions :
    \/ Begin(p)
    \/ CheckDailyLimit(p)
    \/ TransferRead(p)
    \/ Commit(p)
    \/ TransferAbort(p)
    \/ RefreshWallet(p)
    \/ AddPayment(p)
    \/ UpdateWallet(p)

SpecWallet == InitWallet /\ [][NextWallet]_vars

\* ================================================= the calls of calculateSplit
\* prices in whole rupees: negative, zero, 100, 200 and 300
WholePrices == <<0 - Mills(100), 0, Mills(100), Mills(200), Mills(300)>>

\* prices with a third decimal: zero, 0.004 and 10.004
FinePrices == <<0, 4, 10004>>

\* the user of the element at position i, the users taken in order or in
\* reverse order
UserAt(reversed, i) ==
  LET us == IF reversed THEN <<"m2", "m1", "L">> ELSE <<"L", "m1", "m2">>
  IN  us[((i - 1) % 3) + 1]

\* the arrays of n elements with the given prices; choice 0 of a price
\* stands for a null element
ArraysOf(n, prices, lowest) ==
  {[i \in 1..n |-> IF f[i] = 0 THEN NullItem ELSE OrderItem(UserAt(r, i), prices[f[i]])] :
     f \in [1..n -> lowest..Len(prices)], r \in BOOLEAN}

ItemsOver(prices, lowest) ==
  {ItemArray(e) : e \in UNION {ArraysOf(n, prices, lowest) : n \in 0..MaxItems}}

\* bills in whole rupees: the tax is no number, negative or 30, the discount
\* no number, negative, 15 or 900; the items may be no array and may hold null
WholeCalls ==
  {[IdleCalc EXCEPT !.items = its, !.totalTax = tax, !.totalDiscount = disc] :
     its \in {NotAnArray} \cup ItemsOver(WholePrices, 0),
     tax \in {NotANumber, Num(0 - 10), Num(Mills(30))},
     disc \in {NotANumber, Num(0 - 10), Num(Mills(15)), Num(Mills(900))}}

\* bills with amounts below a paisa: tax 0 or 0.004, discount 0 or 0.005
FineCalls ==
  {[IdleCalc EXCEPT !.items = its, !.totalTax = tax, !.totalDiscount = disc] :
     its \in ItemsOver(FinePrices, 1),
     tax \in {Num(0), Num(4)},
     disc \in {Num(0), Num(5)}}

\* a caller calls calculateSplit with the arguments of calc
Calculate(k) ==
  /\ calc.results[k] = CalcPending
  /\ calc' = [calc EXCEPT !.results[k] =
                calculateSplit(calc.items, calc.totalTax, calc.totalDiscount)]
  /\ UNCHANGED <<dbVars, initial, proc, noShowVars, walletVars, screenVars>>

\* the store holds an open order of three members; two callers are about to
\* call calculateSplit with the same arguments
InitSplit ==
  /\ orderStatus = [o \in Orders |-> IF o = "o1" THEN "pending" ELSE "none"]
  /\ orderFee = [o \in Orders |-> NoFee]
  /\ groupStatus = [g \in Groups |-> IF g = "g1" THEN "ordered" ELSE "none"]
  /\ groupMembers = [g \in Groups |-> <<"L", "m1", "m2">>]
  /\ userDocs = Users
  /\ balance = [u \in Users |-> HighBalance]
  /\ ledger = EmptyBag
  /\ items = ItemsOf(ApprovedSplits)
  /\ initial = Store
  /\ proc = [p \in Procs |->
               InitProc([groupId |-> "g1", orderId |-> "o1", leaderId |-> Leader,
                         splits |-> "approved"])]
  /\ noShow = [q \in NoShowProcs |-> IdleNoShow(NoShowArgs("m1"))]
  /\ payments = EmptyBag
  /\ session = [q \in Sessions |-> IdleSession("m1", TRUE, 0)]
  /\ NoScreens
  /\ calc \in WholeCalls \cup FineCalls

NextSplit == \E k \in Callers : Calculate(k)

SpecSplit == InitSplit /\ [][NextSplit]_vars

\* ======================================== settling what calculateSplit returned
\* the order was split by calculateSplit, the members approved their splits,
\* and the order items carry the final amounts; one client settles the order
\* and two clients report the no-show of the same member
InitDerived ==
  /\ orderStatus = [o \in Orders |-> IF o = "o1" THEN "pending" ELSE "none"]
  /\ orderFee = [o \in Orders |-> NoFee]
  /\ groupStatus = [g \in Groups |-> IF g = "g1" THEN "ordered" ELSE "none"]
  /\ groupMembers = [g \in Groups |-> <<"L", "m1", "m2">>]
  /\ userDocs = Users
  /\ balance \in [Users -> {0, LowBalance, HighBalance}]
  /\ balance[Leader] = 0
  /\ balance["m1"] \in {LowBalance, HighBalance}
  /\ balance["m2"] = HighBalance
  /\ ledger = EmptyBag
  /\ \E sp \in {"discounted", "tiny"} :
       /\ items = ItemsOf(SplitChoices[sp])
       /\ proc = [p \in Procs |->
                    InitProc([groupId |-> "g1", orderId |-> "o1", leaderId |-> Leader,
                              splits |-> sp])]
  /\ initial = Store
  /\ \E u \in {"m1", "m2"} : noShow = [q \in NoShowProcs |-> IdleNoShow(NoShowArgs(u))]
  /\ payments = EmptyBag
  /\ session = [q \in Sessions |-> IdleSession("m1", TRUE, 0)]
  /\ NoCalc
  /\ NoScreens

SpecDerived == InitDerived /\ [][NextNoShow]_vars

\* ============================================= two orders of the same leader
\* two groups with the same leader and the same members have an order each;
\* one client settles the first with the shares 102.50, 205.00 and 307.50,
\* another the second with the shares 0.02 and 100.00
InitTwoOrders ==
  /\ orderStatus = [o \in Orders |-> "pending"]
  /\ orderFee = [o \in Orders |-> NoFee]
  /\ groupStatus = [g \in Groups |-> "ordered"]
  /\ groupMembers \in [Groups -> MemberChoices]
  /\ userDocs = Users
  /\ balance \in [Users -> {0, LowBalance, HighBalance}]
  /\ \A u \in Users \ {Leader} : balance[u] \in {LowBalance, HighBalance}
  /\ ledger = EmptyBag
  /\ items = ItemsOf(ApprovedSplits)
  /\ initial = Store
  /\ proc = [p \in Procs |->
               IF p = "c1"
               THEN InitProc([groupId |-> "g1", orderId |-> "o1", leaderId |-> Leader,
                              splits |-> "approved"])
               ELSE InitProc([groupId |-> "g2", orderId |-> "o2", leaderId |-> Leader,
                              splits |-> "tiny"])]
  /\ noShow = [q \in NoShowProcs |-> IdleNoShow(NoShowArgs("m1"))]
  /\ payments = EmptyBag
  /\ session = [q \in Sessions |-> IdleSession("m1", TRUE, 0)]
  /\ NoCalc
  /\ NoScreens

\* no list of shares is long enough for a commit inside the loop
NextTwoOrders ==
  \E p \in Procs :
    \/ Call(p)
    \/ ValidateOrder(p)
    \/ ValidateGroupMembers(p)
    \/ ValidateUserWallets(p)
    \/ FinalCommit(p)
    \/ TxCommit(p)
    \/ TxAbort(p)
    \/ TransientFailure(p)
    \/ BackoffElapsed(p)

SpecTwoOrders == InitTwoOrders /\ [][NextTwoOrders]_vars

\* ======================================================= the group screens
\* the group whose GroupDetailsScreen the users open
Viewed == "g1"

\* a value of members as a JavaScript condition reads it
Truthy(v) == v \notin {"absent", "false"}

\* Object.keys(members)
KeysOf(ms) == {k \in MemberKeys : ms[k] # "absent"}

\* the users m with members[m] == true
TrueMembers(ms) == {k \in MemberKeys : ms[k] = "true"}

\* what the onSnapshot listener of groups/{id} is called with
SnapshotOf(g) ==
  IF groupStatus[g] = "none" THEN NoGroup
  ELSE [exists |-> TRUE, status |-> groupStatus[g], doc |-> groupDoc[g]]

\* a screen writes documents: the open transactions that have read one of
\* them are set back
Written(keys) ==
  /\ proc' = Touch(keys)
  /\ TouchOthers(keys)

GroupWritten(g) == Written({GroupKey(g)})

RECURSIVE SumOps(_)
SumOps(us) ==
  IF us = {} THEN 0
  ELSE LET u == CHOOSE x \in us : TRUE IN screen[u].ops + SumOps(us \ {u})

\* how many times the buttons of the group screens have been pressed
Presses == SumOps(Users)

\* the handler of a button has run once more
Pressed(s) == [s EXCEPT !.ops = @ + 1]

\* the screen is left with navigation.goBack() or navigation.replace('Home')
Left(s) == [s EXCEPT !.group = NoGroup]

\* handleCreateGroup of CreateGroupScreen.tsx: addDoc with members: [user.uid],
\* an array, and memberCount: 1; the new document has an id of its own, so no
\* screen holds a snapshot of it
handleCreateGroup(u) ==
  /\ Presses < MaxOps
  /\ groupStatus[Viewed] = "none"
  /\ \A v \in Users : ~screen[v].group.exists
  /\ groupStatus' = [groupStatus EXCEPT ![Viewed] = "open"]
  /\ groupDoc' = [groupDoc EXCEPT ![Viewed] =
                    GroupDoc([NoMembers EXCEPT !["0"] = u], 1, u, "")]
  /\ screen' = [screen EXCEPT ![u] = Pressed(@)]
  /\ UNCHANGED <<orderStatus, orderFee, groupMembers, userDocs, balance, ledger, initial,
                 proc, noShowVars, walletVars, splitVars, paid>>

\* handleCreateGroup of the other CreateGroupScreen: members is the map
\* {[user.uid]: true}
handleCreateGroupMap(u) ==
  /\ Presses < MaxOps
  /\ groupStatus[Viewed] = "none"
  /\ \A v \in Users : ~screen[v].group.exists
  /\ groupStatus' = [groupStatus EXCEPT ![Viewed] = "open"]
  /\ groupDoc' = [groupDoc EXCEPT ![Viewed] =
                    GroupDoc([NoMembers EXCEPT ![u] = "true"], 1, u, "")]
  /\ screen' = [screen EXCEPT ![u] = Pressed(@)]
  /\ UNCHANGED <<orderStatus, orderFee, groupMembers, userDocs, balance, ledger, initial,
                 proc, noShowVars, walletVars, splitVars, paid>>

\* the listener of subscribeToGroup runs: setGroup with the document, or
\* navigation.goBack() when the document is gone
Snapshot(u) ==
  /\ screen[u].group # SnapshotOf(Viewed)
  /\ screen' = [screen EXCEPT ![u] =
       IF groupStatus[Viewed] = "none" THEN Left(@)
       ELSE [@ EXCEPT !.group = SnapshotOf(Viewed)]]
  /\ UNCHANGED <<dbVars, initial, proc, noShowVars, walletVars, splitVars, groupDoc, paid>>

\* updateDoc(groupRef, fields): rejected when the document does not exist
UpdateGroup(doc) ==
  groupDoc' = [groupDoc EXCEPT ![Viewed] = IF groupStatus[Viewed] = "none" THEN @ ELSE doc]

\* the Join Group button, rendered for an open group to a user who is not in
\* group.members, and handleJoinGroup: both screens write the members and the
\* memberCount of their snapshot, with the user added
handleJoinGroup(u) ==
  LET s == screen[u].group
  IN  /\ Presses < MaxOps
      /\ s.exists
      /\ s.status = "open"
      /\ ~Truthy(s.doc.members[u])
      /\ s.doc.memberCount < MAX_GROUP_MEMBERS
      /\ UpdateGroup([groupDoc[Viewed] EXCEPT
                        !.members = [s.doc.members EXCEPT ![u] = "true"],
                        !.memberCount = s.doc.memberCount + 1])
      /\ screen' = [screen EXCEPT ![u] = Pressed(@)]
      /\ GroupWritten(Viewed)
      /\ UNCHANGED <<orderStatus, orderFee, groupStatus, groupMembers, userDocs, balance,
                     ledger, initial, items, payments, splitVars, paid>>

\* the Leave Group button of GroupDetailsScreen.tsx, rendered to a member who
\* is not the leader, and handleLeaveGroup: the members of the snapshot
\* without the user and its memberCount less one, then goBack
handleLeaveGroup(u) ==
  LET s == screen[u].group
  IN  /\ Presses < MaxOps
      /\ s.exists
      /\ Truthy(s.doc.members[u])
      /\ s.doc.createdBy # u
      /\ UpdateGroup([groupDoc[Viewed] EXCEPT
                        !.members = [s.doc.members EXCEPT ![u] = "absent"],
                        !.memberCount = s.doc.memberCount - 1])
      /\ screen' = [screen EXCEPT ![u] =
           IF groupStatus[Viewed] = "none" THEN Pressed(@) ELSE Left(Pressed(@))]
      /\ GroupWritten(Viewed)
      /\ UNCHANGED <<orderStatus, orderFee, groupStatus, groupMembers, userDocs, balance,
                     ledger, initial, items, payments, splitVars, paid>>

\* handleLeaveGroup of the other screen: members.<uid> is set to false and
\* memberCount changed by increment(-1), both in the stored document
handleLeaveGroupIncrement(u) ==
  LET s == screen[u].group
  IN  /\ Presses < MaxOps
      /\ s.exists
      /\ Truthy(s.doc.members[u])
      /\ s.doc.createdBy # u
      /\ UpdateGroup([groupDoc[Viewed] EXCEPT
                        !.members = [@ EXCEPT ![u] = "false"],
                        !.memberCount = @ - 1])
      /\ screen' = [screen EXCEPT ![u] =
           IF groupStatus[Viewed] = "none" THEN Pressed(@) ELSE Left(Pressed(@))]
      /\ GroupWritten(Viewed)
      /\ UNCHANGED <<orderStatus, orderFee, groupStatus, groupMembers, userDocs, balance,
                     ledger, initial, items, payments, splitVars, paid>>

\* the leader's Leave Group button of the other screen, rendered for an open
\* group, and the Leave button of its dialog: the group is deleted when the
\* snapshot has no other key, else it is handed to remainingMembers[0], then
\* goBack; the order of Object.keys is left open
handleLeaderLeaveGroup(u) ==
  LET s == screen[u].group
      updatedMembers == [s.doc.members EXCEPT ![u] = "absent"]
      remainingMembers == KeysOf(updatedMembers)
  IN  /\ Presses < MaxOps
      /\ s.exists
      /\ s.doc.createdBy = u
      /\ s.status = "open"
      /\ IF remainingMembers = {}
         THEN /\ groupStatus' = [groupStatus EXCEPT ![Viewed] = "none"]
              /\ groupDoc' = [groupDoc EXCEPT ![Viewed] = NoGroupDoc]
         ELSE /\ \E first \in remainingMembers :
                   UpdateGroup([groupDoc[Viewed] EXCEPT
                                  !.members = updatedMembers,
                                  !.memberCount = Cardinality(remainingMembers),
                                  !.createdBy = first])
              /\ UNCHANGED groupStatus
      /\ screen' = [screen EXCEPT ![u] =
           IF remainingMembers # {} /\ groupStatus[Viewed] = "none"
           THEN Pressed(@) ELSE Left(Pressed(@))]
      /\ GroupWritten(Viewed)
      /\ UNCHANGED <<orderStatus, orderFee, groupMembers, userDocs, balance,
                     ledger, initial, items, payments, splitVars, paid>>

\* handleCloseGroup, behind the Close Group button that the leader of an open
\* group sees: a write batch deletes the messages and sets the status of the
\* group to 'completed', then navigation.replace('Home')
handleCloseGroup(u) ==
  LET s == screen[u].group
  IN  /\ Presses < MaxOps
      /\ screen[u].pc = "idle"
      /\ s.exists
      /\ s.doc.createdBy = u
      /\ s.status = "open"
      /\ groupStatus' = [groupStatus EXCEPT ![Viewed] = IF @ = "none" THEN @ ELSE "completed"]
      /\ screen' = [screen EXCEPT ![u] =
           IF groupStatus[Viewed] = "none" THEN Pressed(@) ELSE Left(Pressed(@))]
      /\ GroupWritten(Viewed)
      /\ UNCHANGED <<orderStatus, orderFee, groupMembers, userDocs, balance, ledger, initial,
                     items, payments, splitVars, groupDoc, paid>>

\* handleStartOrder, behind the Start Order button of the leader of an open
\* group: with two members or more the status becomes 'ordering'
handleStartOrder(u) ==
  LET s == screen[u].group
  IN  /\ Presses < MaxOps
      /\ screen[u].pc = "idle"
      /\ s.exists
      /\ s.doc.createdBy = u
      /\ s.status = "open"
      /\ s.doc.memberCount >= 2
      /\ groupStatus' = [groupStatus EXCEPT ![Viewed] = IF @ = "none" THEN @ ELSE "ordering"]
      /\ screen' = [screen EXCEPT ![u] = Pressed(@)]
      /\ GroupWritten(Viewed)
      /\ UNCHANGED <<orderStatus, orderFee, groupMembers, userDocs, balance, ledger, initial,
                     items, payments, splitVars, groupDoc, paid>>

\* the ids that addDoc gives to the orders, in the order of their creation
NewOrder == IF orderStatus["o1"] = "none" THEN "o1" ELSE "o2"

\* handleConfirmOrder, for the leader whose order modal shows the upload of the
\* screenshot (status 'ordering'): addDoc of a pending order without items
handleConfirmOrder(u) ==
  LET s == screen[u].group
  IN  /\ Presses < MaxOps
      /\ screen[u].pc = "idle"
      /\ s.exists
      /\ s.doc.createdBy = u
      /\ s.status = "ordering"
      /\ orderStatus[NewOrder] = "none"
      /\ orderStatus' = [orderStatus EXCEPT ![NewOrder] = "pending"]
      /\ screen' = [screen EXCEPT ![u] = [Pressed(@) EXCEPT !.pc = "confirmGroup",
                                                           !.order = NewOrder]]
      /\ Written({OrderKey(NewOrder)})
      /\ UNCHANGED <<orderFee, groupStatus, groupMembers, userDocs, balance, ledger, initial,
                     items, payments, splitVars, groupDoc, paid>>

\* handleConfirmOrder goes on: the group becomes 'ordered' and currentOrder
\* names the new order
ConfirmGroup(u) ==
  /\ screen[u].pc = "confirmGroup"
  /\ groupStatus' = [groupStatus EXCEPT ![Viewed] = IF @ = "none" THEN @ ELSE "ordered"]
  /\ UpdateGroup([groupDoc[Viewed] EXCEPT !.currentOrder = screen[u].order])
  /\ screen' = [screen EXCEPT ![u].pc = "idle"]
  /\ GroupWritten(Viewed)
  /\ UNCHANGED <<orderStatus, orderFee, groupMembers, userDocs, balance, ledger, initial,
                 items, payments, splitVars, paid>>

\* handleAddOrderItem: items.<uid> of the current order is set to an item with
\* paid: false
handleAddOrderItem(u) ==
  LET s == screen[u].group
      o == s.doc.currentOrder
  IN  /\ Presses < MaxOps
      /\ screen[u].pc = "idle"
      /\ s.exists
      /\ o # ""
      /\ paid' = IF orderStatus[o] = "none" THEN paid
                 ELSE [paid EXCEPT ![o][u] = "false"]
      /\ screen' = [screen EXCEPT ![u] = Pressed(@)]
      /\ Written({OrderKey(o)})
      /\ UNCHANGED <<dbVars, initial, items, payments, splitVars, groupDoc>>

\* the amounts handlePayOrder is called with: none and 205.00
PayAmounts == {0, 20500}

\* handlePayOrder(amount) up to the end of deductMoney: the balance check of
\* the screen, then validateTransactionAmount and the balance check of
\* deductMoney, its transaction with the debit entry and increment(-amount),
\* and refreshWallet; an error of deductMoney ends the handler
handlePayOrder(u, amount) ==
  LET s == screen[u].group
  IN  /\ Presses < MaxOps
      /\ screen[u].pc = "idle"
      /\ s.exists
      /\ s.doc.currentOrder # ""
      /\ screen[u].balance >= amount
      /\ IF AmountError(amount) # ""
         THEN /\ screen' = [screen EXCEPT ![u] = Pressed(@)]
              /\ UNCHANGED <<balance, ledger, proc, noShow, session>>
         ELSE /\ balance' = [balance EXCEPT ![u] = @ - amount]
              /\ ledger' = ledger (+) SetToBag({WalletEntry("debit", amount, u)})
              /\ screen' = [screen EXCEPT ![u] =
                   [Pressed(@) EXCEPT !.pc = "payMark", !.amount = amount,
                                      !.order = s.doc.currentOrder,
                                      !.balance = balance[u] - amount]]
              /\ Written({UserKey(u)})
      /\ UNCHANGED <<orderStatus, orderFee, groupStatus, groupMembers, userDocs, initial,
                     items, payments, splitVars, groupDoc, paid>>

\* handlePayOrder goes on: items.<uid>.paid of the order is set to true
PayMark(u) ==
  /\ screen[u].pc = "payMark"
  /\ IF orderStatus[screen[u].order] = "none"
     THEN /\ screen' = [screen EXCEPT ![u].pc = "idle"]
          /\ UNCHANGED paid
     ELSE /\ screen' = [screen EXCEPT ![u].pc = "payCheck"]
          /\ paid' = [paid EXCEPT ![screen[u].order][u] = "true"]
  /\ Written({OrderKey(screen[u].order)})
  /\ UNCHANGED <<dbVars, initial, items, payments, splitVars, groupDoc>>

\* Object.values(orderData.items).every(item => item.paid)
AllPaid(o) == \A v \in Users : paid[o][v] # "false"

\* handlePayOrder goes on: getDoc of the order and the allPaid check
PayCheck(u) ==
  /\ screen[u].pc = "payCheck"
  /\ screen' = [screen EXCEPT ![u].pc =
       IF orderStatus[screen[u].order] # "none" /\ AllPaid(screen[u].order)
       THEN "payCompleteOrder" ELSE "idle"]
  /\ UNCHANGED <<dbVars, initial, proc, noShowVars, walletVars, splitVars, groupDoc, paid>>

\* handlePayOrder goes on: the order is set to 'completed'
PayCompleteOrder(u) ==
  /\ screen[u].pc = "payCompleteOrder"
  /\ orderStatus' = [orderStatus EXCEPT ![screen[u].order] =
                       IF @ = "none" THEN @ ELSE "completed"]
  /\ screen' = [screen EXCEPT ![u].pc =
       IF orderStatus[screen[u].order] = "none" THEN "idle" ELSE "payCompleteGroup"]
  /\ Written({OrderKey(screen[u].order)})
  /\ UNCHANGED <<orderFee, groupStatus, groupMembers, userDocs, balance, ledger, initial,
                 items, payments, splitVars, groupDoc, paid>>

\* handlePayOrder ends: the group is set to 'completed'
PayCompleteGroup(u) ==
  /\ screen[u].pc = "payCompleteGroup"
  /\ groupStatus' = [groupStatus EXCEPT ![Viewed] = IF @ = "none" THEN @ ELSE "completed"]
  /\ screen' = [screen EXCEPT ![u].pc = "idle"]
  /\ GroupWritten(Viewed)
  /\ UNCHANGED <<orderStatus, orderFee, groupMembers, userDocs, balance, ledger, initial,
                 items, payments, splitVars, groupDoc, paid>>

\* ------------------------------------------- creating, joining and leaving
\* no group exists and nobody has a screen open
InitMembers ==
  /\ orderStatus = [o \in Orders |-> "none"]
  /\ orderFee = [o \in Orders |-> NoFee]
  /\ groupStatus = [g \in Groups |-> "none"]
  /\ groupMembers = [g \in Groups |-> <<"L", "m1", "m2">>]
  /\ userDocs = Users
  /\ balance = [u \in Users |-> 0]
  /\ ledger = EmptyBag
  /\ items = [o \in Orders |-> [u \in Users |-> NoItem]]
  /\ initial = Store
  /\ proc = [p \in Procs |->
               InitProc([groupId |-> "g1", orderId |-> "o1", leaderId |-> Leader,
                         splits |-> "approved"])]
  /\ noShow = [q \in NoShowProcs |-> IdleNoShow(NoShowArgs("m1"))]
  /\ payments = EmptyBag
  /\ session = [q \in Sessions |-> IdleSession("m1", TRUE, 0)]
  /\ NoCalc
  /\ NoScreens

NextMembers ==
  \E u \in Users :
    \/ handleCreateGroup(u)
    \/ handleCreateGroupMap(u)
    \/ Snapshot(u)
    \/ handleJoinGroup(u)
    \/ handleLeaveGroup(u)
    \/ handleLeaveGroupIncrement(u)
    \/ handleLeaderLeaveGroup(u)

SpecMembers == InitMembers /\ [][NextMembers]_vars

\* ------------------------------------------------ the life of one group
\* L has created a group, m1 and m2 have joined it, a press of a button that
\* is not counted; every wallet state is up to date; a
\* client will settle order o1 of the group with the shares 102.50, 205.00
\* and 307.50, members being the list validateGroupMembers returns
InitGroup ==
  /\ orderStatus = [o \in Orders |-> "none"]
  /\ orderFee = [o \in Orders |-> NoFee]
  /\ groupStatus = [g \in Groups |-> IF g = Viewed THEN "open" ELSE "none"]
  /\ groupMembers = [g \in Groups |-> <<"L", "m1", "m2">>]
  /\ userDocs = Users
  /\ balance = [u \in Users |-> IF u = Leader THEN 0 ELSE HighBalance]
  /\ ledger = EmptyBag
  /\ items = [o \in Orders |-> [u \in Users |-> NoItem]]
  /\ initial = Store
  /\ proc = [p \in Procs |->
               InitProc([groupId |-> Viewed, orderId |-> "o1", leaderId |-> Leader,
                         splits |-> "approved"])]
  /\ noShow = [q \in NoShowProcs |-> IdleNoShow(NoShowArgs("m1"))]
  /\ payments = EmptyBag
  /\ session = [q \in Sessions |-> IdleSession("m1", TRUE, 0)]
  /\ NoCalc
  /\ groupDoc = [g \in Groups |->
       IF g = Viewed
       THEN GroupDoc([k \in MemberKeys |-> IF k \in Users THEN "true" ELSE "absent"],
                     3, Leader, "")
       ELSE NoGroupDoc]
  /\ paid = [o \in Orders |-> [u \in Users |-> "absent"]]
  /\ screen = [u \in Users |->
       [IdleScreen EXCEPT !.balance = balance[u], !.ops = IF u = Leader THEN 1 ELSE 0]]

NextGroup ==
  \/ \E u \in Users :
       \/ Snapshot(u)
       \/ handleLeaveGroup(u)
       \/ handleLeaderLeaveGroup(u)
       \/ handleCloseGroup(u)
       \/ handleStartOrder(u)
       \/ handleConfirmOrder(u)
       \/ ConfirmGroup(u)
       \/ handleAddOrderItem(u)
       \/ \E amount \in PayAmounts : handlePayOrder(u, amount)
       \/ PayMark(u)
       \/ PayCheck(u)
       \/ PayCompleteOrder(u)
       \/ PayCompleteGroup(u)
  \/ Call(Settler)
  \/ ValidateOrder(Settler)
  \/ ValidateGroupMembers(Settler)
  \/ ValidateUserWallets(Settler)
  \/ FinalCommit(Settler)
  \/ TxCommit(Settler)
  \/ TxAbort(Settler)
  \/ BackoffElapsed(Settler)

SpecGroup == InitGroup /\ [][NextGroup]_vars

\* ------------------------------------------------- vocabulary of the claims
Done(p) == proc[p].pc = "done"

Alone(p) == \A q \in Procs \ {p} : proc[q].pc = "idle"

Threw(p, code) == Done(p) /\ proc[p].result = Thrown(code)

\* the call of p was made with a share whose approved flag is false
HasUnapproved(p) ==
  \E i \in 1..Len(Args(proc[p].call).splits) : ~Args(proc[p].call).splits[i].approved

\* the validations of order, group and users pass on store st
ValidationsPass(st, c) ==
  /\ OrderError(st.orderStatus[c.orderId]) = ""
  /\ GroupError(st.groupStatus[c.groupId]) = ""
  /\ UsersError(groupMembers[c.groupId], userDocs) = ""

\* the distinct shares of call c that the loop debits
DebitedShares(c) == {sp \in SeqRange(c.splits) : sp.userId # c.leaderId}

\* how many shares of call c equal sp
ShareCount(c, sp) == Cardinality({j \in 1..Len(c.splits) : c.splits[j] = sp})

DebitedCount(c) == Cardinality({j \in 1..Len(c.splits) : c.splits[j].userId # c.leaderId})

HasWallets(c) ==
  \A sp \in DebitedShares(c) : sp.userId \in SeqRange(groupMembers[c.groupId])

Sufficient(st, c) ==
  \A sp \in DebitedShares(c) : st.balance[sp.userId] >= sp.finalAmount

\* what the splits of call c take from user u
OwedBy(c, u) ==
  SumSeq([i \in 1..Len(c.splits) |->
            IF c.splits[i].userId # c.leaderId /\ c.splits[i].userId = u
            THEN c.splits[i].finalAmount ELSE 0], 1, Len(c.splits))

DebitEntry(c, sp) ==
  Entry("debit", sp.finalAmount, sp.userId, c.groupId, c.orderId, NoFee)

\* how often one run of the loop of call c queues the debit entry e
QueuedOnce(c, e) ==
  Cardinality({j \in 1..Len(c.splits) :
                 c.splits[j].userId # c.leaderId /\ DebitEntry(c, c.splits[j]) = e})

CreditEntry(c) ==
  Entry("credit", LeaderAmount(c.splits), c.leaderId, c.groupId, c.orderId,
        PlatformFee(c.splits))

\* the whole settlement of call c is in the store, once
FullyApplied(st, c) ==
  /\ orderStatus[c.orderId] = "completed"
  /\ orderFee[c.orderId] = PlatformFee(c.splits)
  /\ groupStatus[c.groupId] = "none"
  /\ \A u \in Users \ {c.leaderId} : balance[u] = st.balance[u] - OwedBy(c, u)
  /\ balance[c.leaderId] = st.balance[c.leaderId] + LeaderAmount(c.splits)
  /\ \A sp \in DebitedShares(c) : CopiesIn(DebitEntry(c, sp), ledger) = ShareCount(c, sp)
  /\ CopiesIn(CreditEntry(c), ledger) = 1
  /\ BagCardinality(ledger) = BagCardinality(st.ledger) + DebitedCount(c) + 1

\* ------------------------------------------------------------------ C1
\* C1: in every state either the whole settlement (every member debit, the
\* leader credit, the order completed, the group deleted) has been applied
\* or nothing of it has.
C1_AllOrNothing ==
  \/ Store = initial
  \/ \E p \in Procs : FullyApplied(initial, Args(proc[p].call))

\* ------------------------------------------------------------------ C2
\* C2: a call that finds a non-leader share larger than its owner's balance
\* fails with INSUFFICIENT_BALANCE and leaves the store as it was, wherever
\* the share stands in splits and however many shares there are.
C2_InsufficientChangesNothing ==
  \A p \in Procs :
    ( /\ Done(p) /\ Alone(p) /\ ~proc[p].faulted
      /\ ValidationsPass(proc[p].snap, Args(proc[p].call))
      /\ ~HasUnapproved(p)
      /\ HasWallets(Args(proc[p].call))
      /\ ~Sufficient(proc[p].snap, Args(proc[p].call)) )
    => /\ proc[p].result = Thrown("INSUFFICIENT_BALANCE")
       /\ Store = proc[p].snap

\* ------------------------------------------------------------------ C3
\* C3: a call made after a call for the same order has returned true changes
\* no balance and no ledger entry, and it fails, with ORDER_COMPLETED unless
\* the store rejected one of its requests.
C3_SecondCallRejected ==
  \A p \in Procs :
    proc[p].priorSuccess =>
      /\ balance = proc[p].snap.balance
      /\ ledger = proc[p].snap.ledger
      /\ proc[p].result # Returned("true")
      /\ Done(p) /\ ~proc[p].faulted => proc[p].result = Thrown("ORDER_COMPLETED")

C3_Witness ==
  \E p \in Procs : proc[p].priorSuccess /\ Threw(p, "ORDER_COMPLETED")

\* ------------------------------------------------------------------ C4
\* C4: of the calls for one order at most one applies its debits and its
\* credit: the leader is credited at most once, and while no call has gone
\* into a second attempt each share is debited at most once.
C4_AtMostOneSettlement ==
  \A e \in BagToSet(ledger) :
    /\ e.type = "credit" => CopiesIn(e, ledger) <= 1
    /\ (e.type = "debit" /\ \A q \in Procs : proc[q].attempts <= 1)
         => \A p \in Procs : CopiesIn(e, ledger) <= QueuedOnce(Args(proc[p].call), e)

\* ------------------------------------------------------------------ C5
\* C5 as stated: a call with a share that is not approved fails with
\* SPLITS_NOT_APPROVED and changes nothing.
C5_AlwaysSplitsNotApproved ==
  \A p \in Procs :
    (Done(p) /\ ~proc[p].faulted /\ HasUnapproved(p))
    => /\ proc[p].result = Thrown("SPLITS_NOT_APPROVED")
       /\ Store = proc[p].snap

\* C5 as amended: a call with a share that is not approved changes nothing
\* and fails; it fails with SPLITS_NOT_APPROVED when the validations of the
\* order, the group and the users, which run first, pass.
C5_UnapprovedNeverSettles ==
  \A p \in Procs :
    (proc[p].pc # "idle" /\ HasUnapproved(p))
    => /\ Store = proc[p].snap
       /\ proc[p].result.kind # "return"
       /\ (Done(p) /\ ~proc[p].faulted)
            => proc[p].result =
                 Thrown(IF ValidationsPass(proc[p].snap, Args(proc[p].call))
                        THEN "SPLITS_NOT_APPROVED"
                        ELSE proc[p].result.val)

C5_Witness == \E p \in Procs : HasUnapproved(p) /\ Threw(p, "SPLITS_NOT_APPROVED")

\* ------------------------------------------------------------------ C6
\* C6: a business-rule or precondition error propagates on its first
\* occurrence: one attempt, no backoff wait.
C6_BusinessErrorsNotRetried ==
  \A p \in Procs :
    (Done(p) /\ proc[p].result.kind = "throw" /\ proc[p].result.val \in BusinessCodes)
    => /\ proc[p].attempts = 1
       /\ proc[p].delays = <<>>

\* ------------------------------------------------------------------ C7
\* C7: an attempt that fails with an error that is not a business-rule error
\* is retried, so such an error reaches the caller only from the last of
\* MAX_RETRIES attempts, after the waits 2000 and 4000.
C7_TransientErrorsRetried ==
  \A p \in Procs :
    (Done(p) /\ proc[p].result.kind = "throw" /\ proc[p].result.val \notin BusinessCodes)
    => /\ proc[p].attempts = MAX_RETRIES
       /\ proc[p].delays = <<BackoffDelay(1), BackoffDelay(2)>>

\* ------------------------------------------------------------------ C8
\* C8: what the caller gets after transient failures is PROCESSING_ERROR,
\* and it gets it only when the retry budget is used up.
C8_ExhaustionIsProcessingError ==
  \A p \in Procs :
    (Done(p) /\ proc[p].result.kind = "throw" /\ proc[p].faulted
       /\ proc[p].result.val \notin BusinessCodes)
    => /\ proc[p].result.val = "PROCESSING_ERROR"
       /\ proc[p].retryCount = MAX_RETRIES

\* ------------------------------------------------------------------ C9
\* C9: a call makes at most MAX_RETRIES transaction attempts; it ends with
\* the value true or with a thrown error, never with false, and with true
\* only when the transaction of its last attempt committed.
C9_BoundedAttemptsTrueOrThrow ==
  \A p \in Procs :
    /\ proc[p].attempts <= MAX_RETRIES
    /\ proc[p].retryCount <= MAX_RETRIES
    /\ Done(p) => \/ proc[p].result = Returned("true") /\ proc[p].committed
                  \/ proc[p].result.kind = "throw"
    /\ ~Done(p) => proc[p].result = Pending

C9_Witness ==
  \E p \in Procs : Done(p) /\ proc[p].attempts = MAX_RETRIES /\ proc[p].result.kind = "throw"

\* ------------------------------------------------------------------ C10
\* C10: a call made when every precondition holds, with no other client and
\* no rejected request, returns true and leaves the order completed, the
\* group deleted, each share debited once and the leader credited once.
C10_ValidCallSettles ==
  \A p \in Procs :
    ( /\ Done(p) /\ Alone(p) /\ ~proc[p].faulted
      /\ ValidationsPass(proc[p].snap, Args(proc[p].call))
      /\ ~HasUnapproved(p)
      /\ HasWallets(Args(proc[p].call))
      /\ Sufficient(proc[p].snap, Args(proc[p].call)) )
    => /\ proc[p].result = Returned("true")
       /\ FullyApplied(proc[p].snap, Args(proc[p].call))

\* ------------------------------------------------------------------ C11
\* the credit entries of user u for order o in the ledger
CreditsOf(u, o) ==
  {e \in BagToSet(ledger) : e.type = "credit" /\ e.userId = u /\ e.orderId = o}

\* C11: when a call made with no other client running returns true, the
\* leader's balance has grown by exactly the sum of the shares minus the fee
\* of 2% of that sum rounded to the paisa, and the ledger holds one credit
\* entry of the leader, of that amount and carrying that fee; for the shares
\* 102.50, 205.00, 307.50 the sum is 615, the fee 12.30, the credit 602.70.
C11_LeaderCreditedNetOfFee ==
  \A p \in Procs :
    (Done(p) /\ Alone(p) /\ proc[p].result = Returned("true"))
    => LET c == Args(proc[p].call)
           total == SumFinal(c.splits)
           fee == Round2(total * 2)
       IN  /\ balance[c.leaderId] = proc[p].snap.balance[c.leaderId] + (total - fee)
           /\ \A e \in CreditsOf(c.leaderId, c.orderId) :
                e.amount = total - fee /\ e.platformFee = fee /\ CopiesIn(e, ledger) = 1
           /\ Cardinality(CreditsOf(c.leaderId, c.orderId)) = 1
           /\ c.splits = ApprovedSplits => total = 61500 /\ fee = 1230 /\ total - fee = 60270

C11_Witness ==
  \E p \in Procs :
    /\ Done(p) /\ Alone(p) /\ proc[p].result = Returned("true")
    /\ Args(proc[p].call).splits = ApprovedSplits
    /\ balance[Leader] = 60270

\* ------------------------------------------------------------------ C12
\* the call of p names the leader in a share larger than the leader's balance
LeaderShareUncovered(p) ==
  LET c == Args(proc[p].call)
  IN  \E i \in 1..Len(c.splits) :
        /\ c.splits[i].userId = c.leaderId
        /\ proc[p].snap.balance[c.leaderId] < c.splits[i].finalAmount

PreconditionCode(st, c) ==
  IF OrderError(st.orderStatus[c.orderId]) # "" THEN OrderError(st.orderStatus[c.orderId])
  ELSE IF GroupError(st.groupStatus[c.groupId]) # "" THEN GroupError(st.groupStatus[c.groupId])
  ELSE IF UsersError(groupMembers[c.groupId], userDocs) # "" THEN "USER_NOT_FOUND"
  ELSE IF ~HasWallets(c) THEN "WALLET_NOT_FOUND"
  ELSE ""

\* C13: a call that finds the order missing, completed or cancelled, the
\* group missing or not 'ordered', a member without user record, or (every
\* share being approved and those with a wallet covered) a non-leader share
\* of a user without validated wallet, fails with the code of that
\* precondition and leaves the store as it was.
C13_PreconditionFailureChangesNothing ==
  \A p \in Procs :
    LET c == Args(proc[p].call)
        code == PreconditionCode(proc[p].snap, c)
    IN  ( /\ Done(p) /\ Alone(p) /\ ~proc[p].faulted
          /\ code # ""
          /\ code = "WALLET_NOT_FOUND" =>
               /\ ~HasUnapproved(p)
               /\ \A sp \in DebitedShares(c) :
                    sp.userId \in SeqRange(groupMembers[c.groupId])
                      => proc[p].snap.balance[sp.userId] >= sp.finalAmount )
        => /\ proc[p].result = Thrown(code)
           /\ Store = proc[p].snap

\* ------------------------------------------- vocabulary of C14 to C17
NoShowDone(p) == noShow[p].pc = "done"

\* no other call has taken a step since call p of processNoShow was made
Undisturbed(p) ==
  /\ \A q \in Procs : proc[q].pc = "idle" \/ q \in noShow[p].doneBefore
  /\ \A q \in NoShowProcs \ {p} : noShow[q].pc = "idle" \/ q \in noShow[p].doneBefore

\* 20% of the share of the user of call c in store st, rounded to the paisa
PenaltyIn(st, c) == (st.items[c.orderId][c.userId].finalAmount * 20 + 50) \div 100

\* ------------------------------------------------------------------ C14
\* C14: a call of processNoShow made after a call for the same order and
\* user has returned true, the order being still open, changes no balance,
\* no ledger entry and no order item, and fails, with ALREADY_NO_SHOW unless
\* the store rejected one of its requests; the ledger holds the penalty once.
C14_SecondNoShowRejected ==
  \A p \in NoShowProcs :
    LET c == noShow[p].call IN
    ( /\ noShow[p].priorSuccess /\ Undisturbed(p)
      /\ noShow[p].snap.orderStatus[c.orderId] \notin {"none", "completed", "cancelled"} )
    => /\ balance = noShow[p].snap.balance
       /\ ledger = noShow[p].snap.ledger
       /\ items = noShow[p].snap.items
       /\ noShow[p].result # Returned("true")
       /\ (NoShowDone(p) /\ ~noShow[p].faulted) => noShow[p].result = Thrown("ALREADY_NO_SHOW")
       /\ CopiesIn(Entry("debit", items[c.orderId][c.userId].noShowPenalty, c.userId,
                         c.groupId, c.orderId, NoFee), ledger) = 1

C14_Witness ==
  \E p \in NoShowProcs :
    /\ noShow[p].priorSuccess /\ Undisturbed(p)
    /\ noShow[p].result = Thrown("ALREADY_NO_SHOW")

\* ------------------------------------------------------------------ C15
\* the store after the step holds the whole penalty of call p and nothing else
PenaltyUnit(p) ==
  LET c == noShow[p].call
      pen == PenaltyIn(Store, c)
  IN  /\ balance' = [u \in Users |->
                       IF u = c.userId THEN balance[u] - pen
                       ELSE IF u = c.leaderId THEN balance[u] + pen
                       ELSE balance[u]]
      /\ ledger' = ledger (+) SetToBag({Entry("debit", pen, c.userId, c.groupId, c.orderId, NoFee)})
                          (+) SetToBag({Entry("credit", pen, c.leaderId, c.groupId, c.orderId, NoFee)})
      /\ items' = [items EXCEPT ![c.orderId][c.userId] =
                     [present |-> TRUE, finalAmount |-> @.finalAmount, noShow |-> TRUE,
                      noShowPenalty |-> pen]]

\* a call of processNoShow that returned true, no other call running, has
\* changed the store by exactly one penalty
PenaltyApplied ==
  \A p \in NoShowProcs :
    (NoShowDone(p) /\ noShow[p].result = Returned("true") /\ Undisturbed(p))
    => LET c == noShow[p].call
           st == noShow[p].snap
           pen == PenaltyIn(st, c)
       IN  /\ balance[c.userId] = st.balance[c.userId] - pen
           /\ balance[c.leaderId] = st.balance[c.leaderId] + pen
           /\ balance[c.userId] + balance[c.leaderId]
                = st.balance[c.userId] + st.balance[c.leaderId]
           /\ ledger = st.ledger
                (+) SetToBag({Entry("debit", pen, c.userId, c.groupId, c.orderId, NoFee)})
                (+) SetToBag({Entry("credit", pen, c.leaderId, c.groupId, c.orderId, NoFee)})
           /\ items[c.orderId][c.userId].noShow
           /\ items[c.orderId][c.userId].noShowPenalty = pen

\* C15: a call of processNoShow that returns true has debited the user by
\* 20% of the share rounded to the paisa, credited the leader by as much,
\* added one debit and one credit entry for the group and order and set the
\* item's noShow and noShowPenalty; and every step that changes a balance,
\* the ledger or an item without completing the order applies all of these
\* effects of one call together.
C15_PenaltyIsOneUnit ==
  /\ []PenaltyApplied
  /\ [][ (balance' # balance \/ ledger' # ledger \/ items' # items)
           => \/ orderStatus' # orderStatus
              \/ \E p \in NoShowProcs : PenaltyUnit(p) ]_vars

C15_Witness ==
  \E p \in NoShowProcs :
    /\ NoShowDone(p) /\ noShow[p].result = Returned("true") /\ Undisturbed(p)
    /\ items[noShow[p].call.orderId][noShow[p].call.userId].noShow
    /\ balance[Leader] = noShow[p].snap.balance[Leader] + 4100

\* ------------------------------------------------------------------ C16
\* the error that call c of processNoShow meets first on store st, "" for none
NoShowErrorIn(st, c) ==
  LET item == st.items[c.orderId][c.userId] IN
  IF st.orderStatus[c.orderId] = "none" THEN "ORDER_NOT_FOUND"
  ELSE IF st.orderStatus[c.orderId] = "completed" THEN "ORDER_COMPLETED"
  ELSE IF st.orderStatus[c.orderId] = "cancelled" THEN "ORDER_CANCELLED"
  ELSE IF ~item.present THEN "ITEM_NOT_FOUND"
  ELSE IF item.noShow THEN "ALREADY_NO_SHOW"
  ELSE IF {c.userId, c.leaderId} \ userDocs # {} THEN "USER_NOT_FOUND"
  ELSE IF st.balance[c.userId] < PenaltyIn(st, c) THEN "INSUFFICIENT_BALANCE"
  ELSE ""

\* C16: a call of processNoShow that fails, no other call running and no
\* request rejected by the store, leaves balances, ledger and order as they
\* were and throws the error of the precondition that the store failed.
C16_FailedNoShowChangesNothing ==
  \A p \in NoShowProcs :
    ( /\ NoShowDone(p) /\ noShow[p].result.kind = "throw"
      /\ Undisturbed(p) /\ ~noShow[p].faulted )
    => /\ Store = noShow[p].snap
       /\ noShow[p].result = Thrown(NoShowErrorIn(noShow[p].snap, noShow[p].call))

\* ------------------------------------------------------------------ C17
\* C17: a call of processNoShow made after processOrderCompletion returned
\* true for the order, for a user whose item is not yet a no-show and whose
\* balance covers the penalty, returns true and adds the debit and the
\* credit entry of the penalty for that order.
C17_NoShowAfterSettlement ==
  \A p \in NoShowProcs :
    LET c == noShow[p].call
        st == noShow[p].snap
        pen == PenaltyIn(st, c)
    IN  ( /\ noShow[p].afterSettlement
          /\ NoShowDone(p) /\ Undisturbed(p) /\ ~noShow[p].faulted
          /\ st.items[c.orderId][c.userId].present
          /\ ~st.items[c.orderId][c.userId].noShow
          /\ {c.userId, c.leaderId} \subseteq userDocs
          /\ st.balance[c.userId] >= pen )
        => /\ noShow[p].result = Returned("true")
           /\ CopiesIn(Entry("debit", pen, c.userId, c.groupId, c.orderId, NoFee), ledger) = 1
           /\ CopiesIn(Entry("credit", pen, c.leaderId, c.groupId, c.orderId, NoFee), ledger) = 1

\* ------------------------------------------------------------------ C18
\* C18: in every reachable state every wallet balance is at least zero.
C18_BalancesNonNegative == \A u \in Users : balance[u] >= 0

\* ------------------------------------------------------------------ C19
\* C19: every step that changes a wallet balance changes it by the amount of
\* the operation that takes the step, added or taken off, so that what was
\* credited before is still in the balance.
C19_BalanceChangesAreDeltas ==
  [][ \A u \in Users :
        balance'[u] # balance[u]
          => \E p \in Sessions :
               /\ session'[p].pc # session[p].pc
               /\ balance'[u] - balance[u] \in {session[p].amount, 0 - session[p].amount} ]_vars

\* ------------------------------------------------------------------ C20
\* the sum of the amounts of the completed entries of user u of the given types
LedgerSum(u, types) ==
  SumAmounts(ledger, {e \in BagToSet(ledger) :
                        e.userId = u /\ e.status = "completed" /\ e.type \in types})

\* C20: whenever no wallet operation is under way, for every user the
\* completed credits (credit, transfer_in) minus the completed debits (debit,
\* transfer_out) of the ledger equal the change of the user's balance since
\* the initial state.
C20_LedgerMatchesBalances ==
  (\A p \in Sessions : session[p].pc = "idle")
  => \A u \in Users :
       balance[u] - initial.balance[u]
         = LedgerSum(u, {"credit", "transfer_in"}) - LedgerSum(u, {"debit", "transfer_out"})

\* ------------------------------------------- vocabulary of C21 to C24
\* the prices of the items that calculateSplit was called with
PricesOf(c) == [i \in 1..Len(c.items.elems) |-> c.items.elems[i].itemMRP]

\* the items are a non-empty array of items
HasItems(c) ==
  /\ c.items.isArray /\ Len(c.items.elems) > 0
  /\ \A i \in 1..Len(c.items.elems) : c.items.elems[i].isObject

\* the arguments meet the four preconditions
ValidCall(c) ==
  /\ HasItems(c)
  /\ c.totalTax.isNumber /\ c.totalTax.val >= 0
  /\ c.totalDiscount.isNumber /\ c.totalDiscount.val >= 0
  /\ SumSeq(PricesOf(c), 1, Len(PricesOf(c))) > 0

\* x is a / b (b > 0) rounded to a whole number of paise, a half of a paisa
\* going away from zero
IsRound2(x, a, b) ==
  /\ x % 10 = 0
  /\ 2 * Abs(x * b - a) <= 10 * b
  /\ 2 * Abs(x * b - a) = 10 * b => Abs(x * b) > Abs(a)

\* how far the sum of the final amounts of splits is from the bill
Drift(c, splits) ==
  Abs(SumSeq([i \in 1..Len(splits) |-> splits[i].finalAmount], 1, Len(splits))
        - (SumSeq(PricesOf(c), 1, Len(PricesOf(c))) + c.totalTax.val - c.totalDiscount.val))

\* every amount of the call is a whole number of paise
WholePaise(c) ==
  /\ c.totalTax.val % 10 = 0 /\ c.totalDiscount.val % 10 = 0
  /\ \A i \in 1..Len(c.items.elems) : c.items.elems[i].itemMRP % 10 = 0

\* ------------------------------------------------------------------ C21
\* C21: a call of calculateSplit whose items are empty or no array throws
\* INVALID_ITEMS; otherwise one whose totalTax is negative throws INVALID_TAX;
\* otherwise one whose totalDiscount is negative throws INVALID_DISCOUNT;
\* otherwise one whose item prices sum to 0 or less throws INVALID_TOTAL; a
\* call that throws returns no splits.
C21_InvalidInputRejected ==
  \A k \in Callers :
    calc.results[k] # CalcPending
    => LET r == calc.results[k]
           noItems == ~calc.items.isArray \/ Len(calc.items.elems) = 0
           badTax == ~calc.totalTax.isNumber \/ calc.totalTax.val < 0
           badDiscount == ~calc.totalDiscount.isNumber \/ calc.totalDiscount.val < 0
       IN  /\ noItems => r = CalcThrown("INVALID_ITEMS")
           /\ (~noItems /\ badTax) => r = CalcThrown("INVALID_TAX")
           /\ (~noItems /\ ~badTax /\ badDiscount) => r = CalcThrown("INVALID_DISCOUNT")
           /\ ( /\ HasItems(calc) /\ ~badTax /\ ~badDiscount
                /\ SumSeq(PricesOf(calc), 1, Len(PricesOf(calc))) <= 0 )
              => r = CalcThrown("INVALID_TOTAL")
           /\ r.kind = "throw" => r.splits = <<>>

C21_Witness ==
  \E k \in Callers :
    /\ calc.results[k] = CalcThrown("INVALID_TAX")
    /\ HasItems(calc)
    /\ calc.totalTax.isNumber /\ calc.totalTax.val < 0
    /\ calc.totalDiscount.isNumber /\ calc.totalDiscount.val < 0
    /\ SumSeq(PricesOf(calc), 1, Len(PricesOf(calc))) < 0

\* ------------------------------------------------------------------ C22
\* C22: for valid arguments calculateSplit returns, for each item, a split
\* whose originalAmount is the item's price, whose taxShare is the tax times
\* price / total price rounded to the paisa, whose discountShare is the
\* discount times price / total price rounded to the paisa, and whose
\* finalAmount is price + taxShare - discountShare rounded to the paisa; for
\* the prices 100, 200, 300, tax 30 and discount 15 the final amounts are
\* 102.50, 205.00 and 307.50.
C22_SharesAsSpecified ==
  \A k \in Callers :
    (ValidCall(calc) /\ calc.results[k] # CalcPending)
    => LET r == calc.results[k]
           total == SumSeq(PricesOf(calc), 1, Len(PricesOf(calc)))
       IN  /\ r.kind = "return"
           /\ Len(r.splits) = Len(calc.items.elems)
           /\ \A i \in 1..Len(r.splits) :
                LET sp == r.splits[i]
                    ratio == Ratio(calc.items.elems[i].itemMRP, total)
                IN  /\ sp.originalAmount = calc.items.elems[i].itemMRP
                    /\ IsRound2(sp.taxShare, calc.totalTax.val * ratio.num, ratio.den)
                    /\ IsRound2(sp.discountShare, calc.totalDiscount.val * ratio.num, ratio.den)
                    /\ IsRound2(sp.finalAmount,
                                sp.originalAmount + sp.taxShare - sp.discountShare, 1)
           /\ ( /\ PricesOf(calc) = <<Mills(100), Mills(200), Mills(300)>>
                /\ calc.totalTax.val = Mills(30) /\ calc.totalDiscount.val = Mills(15) )
              => [i \in 1..3 |-> r.splits[i].finalAmount] = <<102500, 205000, 307500>>

C22_Witness ==
  \E k \in Callers :
    /\ ValidCall(calc)
    /\ PricesOf(calc) = <<Mills(100), Mills(200), Mills(300)>>
    /\ calc.totalTax.val = Mills(30) /\ calc.totalDiscount.val = Mills(15)
    /\ calc.results[k].kind = "return"
    /\ calc.results[k].splits[2].taxShare = Mills(10)
    /\ calc.results[k].splits[2].discountShare = Mills(5)
    /\ calc.results[k].splits[2].finalAmount = 205000

\* ------------------------------------------------------------------ C23
\* C23 as stated: for valid arguments the sum of the final amounts differs
\* from the sum of the prices plus the tax minus the discount by at most 0.01
\* times the number of items.
C23_SumWithinOnePaisaPerItem ==
  \A k \in Callers :
    (ValidCall(calc) /\ calc.results[k].kind = "return")
    => Drift(calc, calc.results[k].splits) <= 10 * Len(calc.items.elems)

\* C23 amended: for valid arguments the sum of the final amounts differs from
\* the sum of the prices plus the tax minus the discount by at most 0.015
\* times the number of items, and by at most 0.01 times the number of items
\* when the prices, the tax and the discount are whole numbers of paise.
C23_SumWithinTolerance ==
  \A k \in Callers :
    (ValidCall(calc) /\ calc.results[k].kind = "return")
    => /\ Drift(calc, calc.results[k].splits) <= 15 * Len(calc.items.elems)
       /\ WholePaise(calc)
          => Drift(calc, calc.results[k].splits) <= 10 * Len(calc.items.elems)

C23_Witness ==
  \E k \in Callers :
    /\ ValidCall(calc) /\ calc.results[k].kind = "return"
    /\ ~WholePaise(calc)
    /\ Drift(calc, calc.results[k].splits) > 10 * Len(calc.items.elems)

C27_BothPayoutsCredited ==
  ( /\ \A p \in Procs : proc[p].result = Returned("true")
    /\ \A p, q \in Procs : p # q => Args(proc[p].call).orderId # Args(proc[q].call).orderId
    /\ \A p \in Procs : Args(proc[p].call).leaderId = Leader )
  => /\ balance[Leader]
          = initial.balance[Leader]
            + (SumFinal(Args(proc["c1"].call).splits)
                 - Round2(SumFinal(Args(proc["c1"].call).splits) * 2))
            + (SumFinal(Args(proc["c2"].call).splits)
                 - Round2(SumFinal(Args(proc["c2"].call).splits) * 2))
     /\ \A p \in Procs :
          Cardinality(CreditsOf(Leader, Args(proc[p].call).orderId)) = 1

\* both settlements were under way at the same time and both returned true
C27_Witness ==
  /\ \A p \in Procs : proc[p].result = Returned("true")
  /\ Args(proc["c1"].call).orderId # Args(proc["c2"].call).orderId
  /\ proc["c2"].snap.balance[Leader] = initial.balance[Leader]
  /\ proc["c1"].snap.balance[Leader] = initial.balance[Leader]
  /\ balance[Leader] = initial.balance[Leader] + 60270 + 9802

\* ------------------------------------------------------------------ C28
\* C28: whatever the interleaving of the calls of processNoShow, the ledger
\* holds the penalty debit of a user for an order at most once and the
\* matching credit of the leader at most once.
C28_PenaltyAtMostOnce ==
  \A p \in NoShowProcs :
    LET c == noShow[p].call
        pen == PenaltyAmount(items[c.orderId][c.userId])
    IN  /\ CopiesIn(PenaltyDebit(c, pen), ledger) <= 1
        /\ CopiesIn(PenaltyCredit(c, pen), ledger) <= 1

\* ------------------------------------------------------------------ C29
\* C29: every entry that processOrderCompletion or processNoShow has added
\* to the ledger has an amount greater than 0.
C29_LedgerAmountsPositive ==
  \A e \in BagToSet(ledger) : e.amount > 0

\* ------------------------------------------------------------------ C30
\* the sum of the wallet balances b
RECURSIVE SumBalances(_, _)
SumBalances(b, us) ==
  IF us = {} THEN 0
  ELSE LET u == CHOOSE x \in us : TRUE
       IN  b[u] + SumBalances(b, us \ {u})

\* C30: when a call made with no other client running returns true at its
\* first attempt, the sum of all wallet balances has gone down by exactly the
\* platform fee of the call.
C30_FundsConserved ==
  \A p \in Procs :
    ( /\ Done(p) /\ Alone(p) /\ proc[p].result = Returned("true")
      /\ proc[p].attempts = 1 /\ proc[p].txRuns = 1 /\ ~proc[p].faulted )
    => SumBalances(balance, Users)
         = SumBalances(proc[p].snap.balance, Users) - PlatformFee(Args(proc[p].call).splits)

\* C25: in every reachable state a group that has been deleted or whose status
\* is 'completed' has had a call of processOrderCompletion for it return true,
\* whichever of settlement, closing, the leader leaving and members paying ran
C25_GroupEndsOnlyAfterSettlement ==
  \A g \in Groups :
    (initial.groupStatus[g] # "none" /\ groupStatus[g] \in {"none", "completed"}) =>
      \E p \in Procs : /\ Args(proc[p].call).groupId = g
                       /\ proc[p].result = Returned("true")

\* C26: in every reachable state a group that exists has a memberCount equal
\* to the number of users m with members[m] == true, whatever the order in
\* which the users create, join and leave it from their last snapshots
C26_MemberCountMatchesMembers ==
  \A g \in Groups :
    groupStatus[g] # "none" =>
      groupDoc[g].memberCount = Cardinality(TrueMembers(groupDoc[g].members))

====
